---- MODULE Spec2Model ----
(***************************************************************************)
(* Model of DeepgramDiarizationService (src/deepgram_service.py): the      *)
(* speaker-assignment validation and segmentation engine and the session   *)
(* state it maintains.                                                     *)
(*                                                                         *)
(* Units.  Times are integers in tenths of a second, word confidences are  *)
(* integers in tenths.  A consistency score is an integer scaled by HScale *)
(* and a combined vote score an integer scaled by ScoreScale; both scales  *)
(* are chosen so that every division the code performs is exact, i.e. the  *)
(* model computes the code's arithmetic over the rationals.  An average    *)
(* segment duration is a normalised fraction <<num, den>> of tenths.       *)
(***************************************************************************)
EXTENDS Integers, Sequences, FiniteSets, TLC

VARIABLES
    speakers,                     \* self.speakers: insertion-ordered dict, a sequence of [id, name]
    transcript,                   \* self.transcript
    last_speaker_id,              \* self.last_speaker_id (NoneId models None)
    speaker_history,              \* self.speaker_history
    speaker_timings,              \* self.speaker_timings: id -> [avg_duration, segment_count]
    speaker_consistency_scores,   \* self.speaker_consistency_scores: id -> score * HScale
    on_transcript_callback,       \* TRUE iff self.on_transcript_callback is set
    on_speaker_change_callback,   \* TRUE iff self.on_speaker_change_callback is set
    transcript_calls,             \* arguments of the calls made to on_transcript_callback
    speaker_change_calls,         \* arguments of the calls made to on_speaker_change_callback
    last_op,                      \* the operation that produced this state, with its arguments
    validated_segments,           \* value returned by the last _validate_speaker_assignments
    word_trace,                   \* what the last _validate_speaker_assignments read and decided, word by word
    recorded,                     \* ids passed to _update_speaker_history since construction / clear_session
    recording_log,                \* the same ids, in the order of the calls
    finalized,                    \* segments handled by _process_validated_segments since construction / clear_session
    results_handled,              \* number of operations performed (bounds the exploration)
    fresh_instance,               \* a second instance, constructed when this one was constructed or last
                                  \* cleared and fed the same results since
    connection,                   \* self.connection: "none" (None), "open", or "closed"
    is_active,                    \* self.is_active
    left_active,                  \* TRUE once is_active has gone from True to False
    stop_invoked,                 \* TRUE once stop_diarization has been called
    finish_calls,                 \* calls of connection.finish() since the last successful start
    diarization_enabled,          \* self.diarization_enabled
    clock,                        \* the wall clock datetime.now() reads, in seconds
    summary,                      \* value returned by the last get_session_summary
    ws_pc,                        \* position of transcribe_websocket (app.py) in its code
    ws_log,                       \* messages the server sent to and read from the client, in order
    ws_message,                   \* message: the client message being handled
    start_success,                \* start_success (app.py:240): "unset", "True" or "False"
    audio_sent,                   \* audio chunks forwarded to the upstream engine
    handler_pc,                   \* position of the listener thread in _process_words_with_speakers
    clear_pc,                     \* position of the command thread in clear_session
    stop_pc                       \* position of the caller of stop_diarization in it

session == <<speakers, transcript, last_speaker_id, speaker_history,
             speaker_timings, speaker_consistency_scores>>
callbacks == <<on_transcript_callback, on_speaker_change_callback>>
calls == <<transcript_calls, speaker_change_calls>>
validation == <<validated_segments, word_trace>>
recordings == <<recorded, recording_log>>
observed == <<last_op, validation, recordings, finalized, results_handled>>
twin == <<fresh_instance>>
threads == <<handler_pc, clear_pc, stop_pc>>
lifecycle == <<connection, is_active, left_active, stop_invoked, finish_calls>>
(* What the engine's handlers leave alone *)
socket == <<ws_pc, ws_log, ws_message, start_success, audio_sent>>
outside == <<lifecycle, clock, summary, socket>>
vars == <<session, callbacks, calls, observed, twin, outside, diarization_enabled,
          threads>>

----------------------------------------------------------------------------
(* Bounds of the exploration *)

MaxWords == 3          \* words of an alternating batch of Spec
MaxSpeakerId == 2      \* raw speaker ids of Spec are 0..MaxSpeakerId
MaxResults == 3        \* results handled per behaviour of Spec
MaxBatchWords == 5     \* longest batch of SpecBatch
MaxBatchSpeakerId == 1 \* raw speaker ids of the batches of SpecBatch are 0..MaxBatchSpeakerId

(* Program constants *)

NoneId == 0 - 1                        \* Python None for a speaker id
history_size == 10
min_words_for_speaker_change == 2
min_segment_duration == 3              \* 0.3 s
max_rapid_switch_time == 10            \* 1.0 s

(* Scales of the fixed-point representation *)

HScale == 8 * 105                      \* lcm(1..8): stable_count / (len - 2) is exact
NeutralScore == HScale \div 2          \* 0.5
ScoreScale == 50 * HScale              \* combined scores are exact integers at this scale

SpeakerIds == 0 .. MaxSpeakerId
BatchSpeakerIds == 0 .. MaxBatchSpeakerId
AllSpeakerIds == SpeakerIds \cup BatchSpeakerIds

----------------------------------------------------------------------------
(* Generic helpers *)

RECURSIVE GCD(_, _)
GCD(a, b) == IF b = 0 THEN a ELSE GCD(b, a % b)

Normalise(num, den) ==
    LET g == GCD(IF num < 0 THEN 0 - num ELSE num, den)
    IN  IF g = 0 THEN <<0, 1>> ELSE <<num \div g, den \div g>>

(* Evaluates value once and passes the result to Body: a local assignment *)
Bind(value, Body(_)) == CHOOSE r \in {Body(x) : x \in {value}} : TRUE

Max(a, b) == IF a > b THEN a ELSE b
Min(a, b) == IF a < b THEN a ELSE b

RECURSIVE SumSeq(_)
SumSeq(s) == IF s = <<>> THEN 0 ELSE Head(s) + SumSeq(Tail(s))

(* A text is a sequence of tokens; the token " " is whitespace.            *)
Space == " "

(* ' '.join(words) *)
RECURSIVE JoinWords(_)
JoinWords(ws) ==
    IF ws = <<>> THEN <<>>
    ELSE IF Len(ws) = 1 THEN ws[1]
    ELSE ws[1] \o <<Space>> \o JoinWords(Tail(ws))

(* str.strip() *)
RECURSIVE LStrip(_)
LStrip(t) == IF t # <<>> /\ Head(t) = Space THEN LStrip(Tail(t)) ELSE t

RECURSIVE RStrip(_)
RStrip(t) ==
    IF t # <<>> /\ t[Len(t)] = Space THEN RStrip(SubSeq(t, 1, Len(t) - 1)) ELSE t

Strip(t) == RStrip(LStrip(t))

(* What a handler appended to a list: the part of after that follows before *)
AddedTo(before, after) ==
    IF Len(after) > Len(before) THEN SubSeq(after, Len(before) + 1, Len(after)) ELSE <<>>

(* len(text.split()): the number of maximal runs of non-whitespace tokens *)
SplitCount(t) ==
    Cardinality({i \in 1 .. Len(t) : t[i] # Space /\ (i = 1 \/ t[i - 1] = Space)})

(* datetime.now().strftime("%H:%M:%S"): a time text is <<hours, minutes, seconds>> *)
strftime(now) == <<(now % 86400) \div 3600, (now % 3600) \div 60, now % 60>>

(* datetime.strptime(text, "%H:%M:%S"): the seconds since 00:00:00, or a ValueError *)
strptime(text) ==
    IF /\ Len(text) = 3
       /\ text[1] \in 0 .. 23 /\ text[2] \in 0 .. 59 /\ text[3] \in 0 .. 59
    THEN [ok |-> TRUE, seconds |-> (3600 * text[1]) + (60 * text[2]) + text[3]]
    ELSE [ok |-> FALSE]

TwoDigits(n) == IF n < 10 THEN "0" \o ToString(n) ELSE ToString(n)

(* str(timedelta(seconds=delta)): days and a remainder of 0 .. 86399 seconds *)
str_timedelta(delta) ==
    LET days == delta \div 86400
        rest == delta % 86400
        clock_text == ToString(rest \div 3600) \o ":" \o TwoDigits((rest % 3600) \div 60)
                        \o ":" \o TwoDigits(rest % 60)
    IN  IF days = 0 THEN clock_text
        ELSE ToString(days) \o (IF days = 1 \/ days = 0 - 1 THEN " day, " ELSE " days, ")
               \o clock_text

(* Keys of a dict built by inserting s[1], s[2], ... : first appearances, in order *)
RECURSIVE FirstAppearances(_, _)
FirstAppearances(s, seen) ==
    IF s = <<>> THEN <<>>
    ELSE IF Head(s) \in seen THEN FirstAppearances(Tail(s), seen)
    ELSE <<Head(s)>> \o FirstAppearances(Tail(s), seen \cup {Head(s)})

----------------------------------------------------------------------------
(* 4.2 Speaker history tracker *)

get_speaker_consistency_score_zero(scores, speaker_id) ==
    IF speaker_id \notin DOMAIN scores
    THEN 0
    ELSE scores[speaker_id]

(* _get_speaker_consistency_score *)
get_speaker_consistency_score(scores, speaker_id) ==
    IF speaker_id \notin DOMAIN scores
    THEN NeutralScore
    ELSE scores[speaker_id]

(* The loop of _update_speaker_history counting the stable interior positions *)
StableCount(h) ==
    Cardinality({i \in 2 .. (Len(h) - 1) : h[i] = h[i - 1] \/ h[i] = h[i + 1]})

EvictNewest(h) == SubSeq(h, 1, Len(h) - 1)

(* self.speaker_history.pop(0) *)
Evict(h) == Tail(h)

update_speaker_history_every_score(hist, scores, speaker_id) ==
    Bind(IF Len(hist) + 1 > history_size
         THEN Evict(Append(hist, speaker_id))
         ELSE Append(hist, speaker_id),
         LAMBDA h :
           [speaker_history |-> h,
            scores |->
                IF Len(h) >= 3
                THEN Bind((HScale * StableCount(h)) \div (Len(h) - 2),
                          LAMBDA consistency :
                            [s \in (DOMAIN scores) \cup {speaker_id} |-> consistency])
                ELSE scores])

(* _update_speaker_history: returns the new [speaker_history, scores] *)
update_speaker_history(hist, scores, speaker_id) ==
    Bind(IF Len(hist) + 1 > history_size
         THEN Evict(Append(hist, speaker_id))
         ELSE Append(hist, speaker_id),
         LAMBDA h :
           [speaker_history |-> h,
            scores |->
                IF Len(h) >= 3
                THEN Bind((HScale * StableCount(h)) \div (Len(h) - 2),
                          LAMBDA consistency :
                            [s \in (DOMAIN scores) \cup {speaker_id} |->
                               IF s = speaker_id THEN consistency ELSE scores[s]])
                ELSE scores])

----------------------------------------------------------------------------
(* 4.3 Contextual vote scorer (first half of the loop body of               *)
(* _validate_speaker_assignments)                                          *)

ContextWords(word_data, k) ==
    SubSeq(word_data, Max(1, k - 3), Min(Len(word_data), k + 3))

SpeakerIdsOf(ws) == [i \in 1 .. Len(ws) |-> ws[i].speaker_id]

VoteCount(ctx, sid) == Cardinality({i \in 1 .. Len(ctx) : ctx[i].speaker_id = sid})

VoteConfidence(ctx, sid) ==
    SumSeq([i \in 1 .. Len(ctx) |->
              IF ctx[i].speaker_id = sid THEN ctx[i].confidence ELSE 0])

(* combined_score = count_score * 0.4 + conf_score * 0.3 + history_score * 0.3 *)
CombinedScore(ctx, scores, sid) ==
    LET c == VoteCount(ctx, sid)
    IN  ((((4 * ScoreScale) \div 10) * c) \div Len(ctx))
        + (IF c > 0
           THEN (((3 * ScoreScale) \div 100) * VoteConfidence(ctx, sid)) \div c
           ELSE 0)
        + (((3 * ScoreScale) \div (10 * HScale)) * get_speaker_consistency_score(scores, sid))

RECURSIVE BestVoteLastWins(_, _, _, _)
BestVoteLastWins(order, ctx, scores, best) ==
    IF order = <<>> THEN best
    ELSE Bind(CombinedScore(ctx, scores, Head(order)),
              LAMBDA combined_score :
                BestVoteLastWins(Tail(order), ctx, scores,
                                 IF combined_score >= best.score
                                 THEN [speaker |-> Head(order), score |-> combined_score]
                                 ELSE best))

(* for sid, data in speaker_votes.items(): if combined_score > best_score ... *)
RECURSIVE BestVote(_, _, _, _)
BestVote(order, ctx, scores, best) ==
    IF order = <<>> THEN best
    ELSE Bind(CombinedScore(ctx, scores, Head(order)),
              LAMBDA combined_score :
                BestVote(Tail(order), ctx, scores,
                         IF combined_score > best.score
                         THEN [speaker |-> Head(order), score |-> combined_score]
                         ELSE best))

ProposedSpeaker(word_data, k, scores) ==
    Bind(ContextWords(word_data, k),
         LAMBDA ctx :
           BestVote(FirstAppearances(SpeakerIdsOf(ctx), {}), ctx, scores,
                    [speaker |-> word_data[k].speaker_id, score |-> 0]))

----------------------------------------------------------------------------
(* 4.4 Temporal validator *)

(* Python's "x or y" on speaker ids: None and 0 are both falsy *)
PyOr(x, y) == IF x = NoneId \/ x = 0 THEN y ELSE x

RECURSIVE RunBackwards(_, _, _)
RunBackwards(word_data, i, speaker_id) ==
    IF i < 1 THEN 0
    ELSE IF word_data[i].speaker_id = speaker_id
         THEN 1 + RunBackwards(word_data, i - 1, speaker_id)
         ELSE 0

RECURSIVE RunForwards(_, _, _)
RunForwards(word_data, i, speaker_id) ==
    IF i > Len(word_data) THEN 0
    ELSE IF word_data[i].speaker_id = speaker_id
         THEN 1 + RunForwards(word_data, i + 1, speaker_id)
         ELSE 0

(* _would_create_short_segment *)
would_create_short_segment(speaker_id, k, word_data) ==
    (1 + RunBackwards(word_data, k - 1, speaker_id)
       + RunForwards(word_data, k + 1, speaker_id))
    < min_words_for_speaker_change

(* max(speaker_counts, key=speaker_counts.get): first key, in insertion order, with the largest count *)
RECURSIVE FirstMax(_, _, _)
FirstMax(order, count, best) ==
    IF order = <<>> THEN best
    ELSE FirstMax(Tail(order), count,
                  IF count[Head(order)] > count[best] THEN Head(order) ELSE best)

(* _find_contextual_speaker *)
find_contextual_speaker(k, word_data, last) ==
    LET context_range == 2
        start_idx == Max(1, k - context_range)
        end_idx == Min(Len(word_data), k + context_range)
        others == SubSeq(word_data, start_idx, k - 1) \o SubSeq(word_data, k + 1, end_idx)
        order == FirstAppearances(SpeakerIdsOf(others), {})
        count == [sid \in {order[i] : i \in 1 .. Len(order)} |-> VoteCount(others, sid)]
    IN  IF order # <<>>
        THEN FirstMax(Tail(order), count, Head(order))
        ELSE PyOr(last, 0)

(* word['duration'] < expected_duration * 0.1, expected_duration = num/den *)
TooShortFor(duration, avg_duration) ==
    10 * duration * avg_duration[2] < avg_duration[1]

RapidSwitchGuard(proposed_speaker, word, k, word_data) ==
    /\ k > 1
    /\ word.start_time - word_data[k - 1].end_time < max_rapid_switch_time
    /\ word.duration < min_segment_duration
    /\ would_create_short_segment(proposed_speaker, k, word_data)

TimingPriorGuard(proposed_speaker, word, timings) ==
    /\ proposed_speaker \in DOMAIN timings
    /\ TooShortFor(word.duration, timings[proposed_speaker].avg_duration)

(* _apply_temporal_validation *)
apply_temporal_validation(proposed_speaker, word, k, word_data, last, timings) ==
    IF RapidSwitchGuard(proposed_speaker, word, k, word_data)
    THEN PyOr(last, proposed_speaker)
    ELSE IF TimingPriorGuard(proposed_speaker, word, timings)
         THEN find_contextual_speaker(k, word_data, last)
         ELSE proposed_speaker

----------------------------------------------------------------------------
(* 4.5 Segment grouper *)

(* The segment dict _group_into_segments starts for a word *)
NewSegment(word) ==
    [speaker_id |-> word.speaker_id,
     words |-> <<word.text>>,
     start_time |-> word.start_time,
     end_time |-> word.end_time,
     confidence |-> word.validation_confidence]

ExtendSegmentKeepWords(seg, word) ==
    [seg EXCEPT !.end_time = word.end_time,
                !.confidence = Max(@, word.validation_confidence)]

(* The "continue current segment" branch of _group_into_segments *)
ExtendSegment(seg, word) ==
    [seg EXCEPT !.words = Append(@, word.text),
                !.end_time = word.end_time,
                !.confidence = Max(@, word.validation_confidence)]

RECURSIVE GroupLoop(_, _, _)
GroupLoop(rest, segments, current_segment) ==
    IF rest = <<>> THEN Append(segments, current_segment)
    ELSE IF Head(rest).speaker_id = current_segment.speaker_id
         THEN GroupLoop(Tail(rest), segments, ExtendSegment(current_segment, Head(rest)))
         ELSE GroupLoop(Tail(rest), Append(segments, current_segment), NewSegment(Head(rest)))

(* _group_into_segments *)
group_into_segments(validated_words) ==
    IF validated_words = <<>> THEN <<>>
    ELSE GroupLoop(Tail(validated_words), <<>>, NewSegment(Head(validated_words)))

----------------------------------------------------------------------------
(* _validate_speaker_assignments: the loop over the words of the batch.    *)
(* acc = [validated_words, speaker_history, scores, recorded, trace]; the  *)
(* trace keeps, for each word, the speaker the vote proposed with its      *)
(* score, the speaker the word was given, and the last_speaker_id and      *)
(* consistency scores that were read for it.                               *)

AnchorAfterConfirmsWord(last, validated_speaker) == validated_speaker

(* self.last_speaker_id after the loop body has run for a word: the body   *)
(* does not assign it                                                      *)
AnchorAfter(last, validated_speaker) == last

validation_confidence_of_assigned(best, validated_speaker, word_data, k, scores) ==
    CombinedScore(ContextWords(word_data, k), scores, validated_speaker)

(* validated_word['validation_confidence'] = best_score *)
validation_confidence(best, validated_speaker, word_data, k, scores) == best.score

RECURSIVE ValidateLoop(_, _, _, _, _)
ValidateLoop(k, word_data, last, timings, acc) ==
    IF k > Len(word_data) THEN acc
    ELSE Bind(ProposedSpeaker(word_data, k, acc.scores),
         LAMBDA best :
           Bind(apply_temporal_validation(best.speaker, word_data[k], k, word_data,
                                          last, timings),
           LAMBDA validated_speaker :
             Bind(update_speaker_history(acc.speaker_history, acc.scores, validated_speaker),
             LAMBDA upd :
               Bind([validated_words |->
                         Append(acc.validated_words,
                                [text |-> word_data[k].text,
                                 speaker_id |-> validated_speaker,
                                 confidence |-> word_data[k].confidence,
                                 start_time |-> word_data[k].start_time,
                                 end_time |-> word_data[k].end_time,
                                 duration |-> word_data[k].duration,
                                 validation_confidence |->
                                     validation_confidence(best, validated_speaker,
                                                           word_data, k, acc.scores)]),
                     speaker_history |-> upd.speaker_history,
                     scores |-> upd.scores,
                     recorded |-> acc.recorded \cup {validated_speaker},
                     trace |-> Append(acc.trace,
                                      [proposed_speaker |-> best.speaker,
                                       validated_speaker |-> validated_speaker,
                                       validation_confidence |->
                                           validation_confidence(best, validated_speaker,
                                                                 word_data, k, acc.scores),
                                       last_speaker_id |-> last,
                                       scores |-> acc.scores])],
               LAMBDA next_acc :
                 ValidateLoop(k + 1, word_data, AnchorAfter(last, validated_speaker),
                              timings, next_acc)))))

(* Returns [segments, validated_words, speaker_history, scores, recorded, trace] *)
validate_speaker_assignments(word_data, hist, scores, rec, last, timings) ==
    Bind(ValidateLoop(1, word_data, last, timings,
                      [validated_words |-> <<>>, speaker_history |-> hist,
                       scores |-> scores, recorded |-> rec, trace |-> <<>>]),
         LAMBDA out :
           [segments |-> IF word_data = <<>> THEN <<>>
                         ELSE group_into_segments(out.validated_words),
            validated_words |-> out.validated_words,
            speaker_history |-> out.speaker_history,
            scores |-> out.scores,
            recorded |-> out.recorded,
            trace |-> out.trace])

----------------------------------------------------------------------------
(* 4.6 Speaker registry and 4.7 session aggregator *)

Registered(sp, speaker_id) == \E i \in 1 .. Len(sp) : sp[i].id = speaker_id

NameOfRawId(sp, speaker_id) == "Speaker " \o ToString(speaker_id + 1)

(* self.speakers[speaker_id] *)
NameOf(sp, speaker_id) ==
    sp[CHOOSE i \in 1 .. Len(sp) : sp[i].id = speaker_id].name

SpeakerNameFromLen(sp) == "Speaker " \o ToString(Len(sp))

(* f"Speaker {speaker_number}" with speaker_number = len(self.speakers) + 1 *)
SpeakerName(sp) == "Speaker " \o ToString(Len(sp) + 1)

(* self.speakers[speaker_id] = f"Speaker {speaker_number}" for an unregistered id *)
Register(sp, speaker_id) == Append(sp, [id |-> speaker_id, name |-> SpeakerName(sp)])

(* Running mean of _process_validated_segments, lines 397-403 *)
UpdateTiming(timing, segment_duration) ==
    [avg_duration |->
         Normalise(timing.avg_duration[1] * timing.segment_count
                       + segment_duration * timing.avg_duration[2],
                   timing.avg_duration[2] * (timing.segment_count + 1)),
     segment_count |-> timing.segment_count + 1]

NotifiesFirstSpeakerToo(is_new, sp, on_speaker_change) ==
    is_new /\ Len(sp) > 0 /\ on_speaker_change

(* if len(self.speakers) > 1 and self.on_speaker_change_callback, inside   *)
(* the branch taken for an unregistered speaker_id                         *)
NotifiesSpeakerChange(is_new, sp, on_speaker_change) ==
    is_new /\ Len(sp) > 1 /\ on_speaker_change

SetKey(f, key, value) ==
    [x \in (DOMAIN f) \cup {key} |-> IF x = key THEN value ELSE f[x]]

(* Body of the loop of _process_validated_segments for one segment.        *)
(* st = [speakers, speaker_timings, transcript, last_speaker_id,           *)
(*       transcript_calls, speaker_change_calls, finalized, timestamp]     *)
ProcessSegment(st, segment, on_transcript, on_speaker_change) ==
    LET speaker_id == segment.speaker_id
        text == JoinWords(segment.words)
        is_new == ~Registered(st.speakers, speaker_id)
        sp == IF is_new THEN Register(st.speakers, speaker_id) ELSE st.speakers
        segment_duration == segment.end_time - segment.start_time
        timings ==
            IF is_new
            THEN SetKey(st.speaker_timings, speaker_id,
                        [avg_duration |-> <<segment_duration, 1>>, segment_count |-> 1])
            ELSE IF speaker_id \in DOMAIN st.speaker_timings
                 THEN SetKey(st.speaker_timings, speaker_id,
                             UpdateTiming(st.speaker_timings[speaker_id], segment_duration))
                 ELSE st.speaker_timings
        transcript_entry ==
            [time |-> st.timestamp,
             speaker |-> NameOf(sp, speaker_id),
             speaker_id |-> speaker_id,
             text |-> Strip(text),
             confidence |-> segment.confidence,
             is_final |-> TRUE]
    IN  [speakers |-> sp,
         speaker_timings |-> timings,
         transcript |-> Append(st.transcript, transcript_entry),
         last_speaker_id |-> speaker_id,
         transcript_calls |->
             IF on_transcript THEN Append(st.transcript_calls, transcript_entry)
             ELSE st.transcript_calls,
         speaker_change_calls |->
             IF NotifiesSpeakerChange(is_new, sp, on_speaker_change)
             THEN Append(st.speaker_change_calls,
                         [speaker_id |-> speaker_id, speaker_name |-> NameOf(sp, speaker_id)])
             ELSE st.speaker_change_calls,
         finalized |-> Append(st.finalized, segment),
         timestamp |-> st.timestamp]

RECURSIVE process_validated_segments_reversed(_, _, _, _)
process_validated_segments_reversed(st, segments, on_transcript, on_speaker_change) ==
    IF segments = <<>> THEN st
    ELSE Bind(ProcessSegment(st, segments[Len(segments)], on_transcript, on_speaker_change),
              LAMBDA next_st :
                process_validated_segments_reversed(
                    next_st, SubSeq(segments, 1, Len(segments) - 1),
                    on_transcript, on_speaker_change))

(* _process_validated_segments *)
RECURSIVE process_validated_segments(_, _, _, _)
process_validated_segments(st, segments, on_transcript, on_speaker_change) ==
    IF segments = <<>> THEN st
    ELSE Bind(ProcessSegment(st, Head(segments), on_transcript, on_speaker_change),
              LAMBDA next_st :
                process_validated_segments(next_st, Tail(segments),
                                           on_transcript, on_speaker_change))

process_single_speaker_segment_with_timing(st, text, speaker_id, on_transcript, on_speaker_change) ==
    LET is_new == ~Registered(st.speakers, speaker_id)
        sp == IF is_new THEN Register(st.speakers, speaker_id) ELSE st.speakers
        transcript_entry ==
            [time |-> st.timestamp,
             speaker |-> NameOf(sp, speaker_id),
             speaker_id |-> speaker_id,
             text |-> text,
             is_final |-> TRUE]
    IN  [st EXCEPT
            !.speakers = sp,
            !.speaker_timings =
                IF is_new
                THEN SetKey(@, speaker_id, [avg_duration |-> <<0, 1>>, segment_count |-> 1])
                ELSE @,
            !.transcript = Append(@, transcript_entry),
            !.last_speaker_id = speaker_id,
            !.transcript_calls =
                IF on_transcript THEN Append(@, transcript_entry) ELSE @,
            !.speaker_change_calls =
                IF NotifiesSpeakerChange(is_new, sp, on_speaker_change)
                THEN Append(@, [speaker_id |-> speaker_id,
                                speaker_name |-> NameOf(sp, speaker_id)])
                ELSE @]

(* _process_single_speaker_segment *)
process_single_speaker_segment(st, text, speaker_id, on_transcript, on_speaker_change) ==
    LET is_new == ~Registered(st.speakers, speaker_id)
        sp == IF is_new THEN Register(st.speakers, speaker_id) ELSE st.speakers
        transcript_entry ==
            [time |-> st.timestamp,
             speaker |-> NameOf(sp, speaker_id),
             speaker_id |-> speaker_id,
             text |-> text,
             is_final |-> TRUE]
    IN  [st EXCEPT
            !.speakers = sp,
            !.transcript = Append(@, transcript_entry),
            !.last_speaker_id = speaker_id,
            !.transcript_calls =
                IF on_transcript THEN Append(@, transcript_entry) ELSE @,
            !.speaker_change_calls =
                IF NotifiesSpeakerChange(is_new, sp, on_speaker_change)
                THEN Append(@, [speaker_id |-> speaker_id,
                                speaker_name |-> NameOf(sp, speaker_id)])
                ELSE @]

(* Word event normaliser: the loop of _process_words_with_speakers, lines 154-177 *)
WordInfo(word) ==
    [text |-> word.word,
     speaker_id |-> IF word.speaker # NoneId THEN word.speaker ELSE 0,
     confidence |-> IF word.speaker # NoneId THEN word.confidence ELSE 0,
     start_time |-> word.start,
     end_time |-> word.end,
     duration |-> word.end - word.start]

WordData(words) == [i \in 1 .. Len(words) |-> WordInfo(words[i])]


----------------------------------------------------------------------------
(* Inputs: the transcription results delivered by the upstream engine *)

WordTokens == <<"Hello", "there", "Hi", "back">>
WordToken(i) == IF i <= Len(WordTokens) THEN WordTokens[i] ELSE "word" \o ToString(i)

(* Timing and confidence shared by the words of a generated batch:         *)
(* rapid  - words of 0.2 s following each other without a gap;             *)
(* paused - words of 0.2 s separated by gaps of 1.2 s.                     *)
RapidKind == [gap |-> 0, duration |-> 2, confidence |-> 9]
PausedKind == [gap |-> 12, duration |-> 2, confidence |-> 9]
Kinds == {RapidKind, PausedKind}

(* Speaker labels of a batch: one word, or MaxWords words alternating      *)
(* between two speakers on every word                                      *)
Patterns ==
    {<<a>> : a \in SpeakerIds}
    \cup {[i \in 1 .. MaxWords |-> IF i % 2 = 1 THEN ab[1] ELSE ab[2]] :
             ab \in {x \in SpeakerIds \X SpeakerIds : x[1] # x[2]}}

GeneratedWords(pattern, kind) ==
    [i \in 1 .. Len(pattern) |->
        [word |-> <<WordToken(i)>>,
         speaker |-> pattern[i],
         confidence |-> kind.confidence,
         start |-> (i - 1) * (kind.duration + kind.gap),
         end |-> (i - 1) * (kind.duration + kind.gap) + kind.duration]]

(* The clean-alternation scenario: speakers 0,0,1,1, confidence 0.9,       *)
(* times 0.0-0.5, 0.5-1.0, 1.2-1.7, 1.7-2.2                                *)
CleanAlternationWords ==
    <<[word |-> <<"Hello">>, speaker |-> 0, confidence |-> 9, start |-> 0, end |-> 5],
      [word |-> <<"there">>, speaker |-> 0, confidence |-> 9, start |-> 5, end |-> 10],
      [word |-> <<"Hi">>, speaker |-> 1, confidence |-> 9, start |-> 12, end |-> 17],
      [word |-> <<"back">>, speaker |-> 1, confidence |-> 9, start |-> 17, end |-> 22]>>

WordBatches ==
    {GeneratedWords(p, k) : p \in Patterns, k \in Kinds} \cup {CleanAlternationWords}

SentenceOf(words) == JoinWords([i \in 1 .. Len(words) |-> words[i].word])

WordResults == {[sentence |-> SentenceOf(w), words |-> w] : w \in WordBatches}

(* Results without word-level detail *)
FallbackResults ==
    {[sentence |-> <<Space, "Okay", Space>>, words |-> <<>>]}

(* Results whose transcript text is empty or blank *)
BlankResults ==
    {[sentence |-> <<>>, words |-> <<>>],
     [sentence |-> <<Space>>, words |-> GeneratedWords(<<0>>, RapidKind)]}

Results == WordResults \cup FallbackResults \cup BlankResults

(* Which callbacks a set_callbacks call installs: <<on_transcript, on_speaker_change>> *)
CallbackChoices == {<<TRUE, TRUE>>, <<FALSE, FALSE>>}

----------------------------------------------------------------------------
(* The service as a state machine *)

EmptyMap == [x \in {} |-> 0]

(* The fields __init__ gives a new instance, with the records of what it   *)
(* has done: nothing                                                       *)
FreshInstance ==
    [speakers |-> <<>>,
     transcript |-> <<>>,
     last_speaker_id |-> NoneId,
     speaker_history |-> <<>>,
     speaker_timings |-> EmptyMap,
     speaker_consistency_scores |-> EmptyMap,
     transcript_calls |-> <<>>,
     speaker_change_calls |-> <<>>,
     recorded |-> {},
     finalized |-> <<>>,
     timestamp |-> <<>>]

(* The wall-clock time at which the instance is constructed: 23:59:58 *)
SessionStart == (23 * 3600) + (59 * 60) + 58

(* __init__ *)
Init ==
    /\ speakers = <<>>
    /\ transcript = <<>>
    /\ last_speaker_id = NoneId
    /\ speaker_history = <<>>
    /\ speaker_timings = EmptyMap
    /\ speaker_consistency_scores = EmptyMap
    /\ on_transcript_callback = FALSE
    /\ on_speaker_change_callback = FALSE
    /\ transcript_calls = <<>>
    /\ speaker_change_calls = <<>>
    /\ last_op = [name |-> "init"]
    /\ validated_segments = <<>>
    /\ word_trace = <<>>
    /\ recorded = {}
    /\ recording_log = <<>>
    /\ finalized = <<>>
    /\ results_handled = 0
    /\ fresh_instance = FreshInstance
    /\ connection = "none"
    /\ is_active = FALSE
    /\ left_active = FALSE
    /\ stop_invoked = FALSE
    /\ finish_calls = 0
    /\ diarization_enabled = FALSE
    /\ clock = SessionStart
    /\ summary = [session_duration |-> "none"]
    /\ ws_pc = "accepted"
    /\ ws_log = <<>>
    /\ ws_message = "none"
    /\ start_success = "unset"
    /\ audio_sent = 0
    /\ handler_pc = "idle"
    /\ clear_pc = "idle"
    /\ stop_pc = "idle"

ProcessingState ==
    [speakers |-> speakers,
     speaker_timings |-> speaker_timings,
     transcript |-> transcript,
     last_speaker_id |-> last_speaker_id,
     transcript_calls |-> transcript_calls,
     speaker_change_calls |-> speaker_change_calls,
     finalized |-> finalized,
     timestamp |-> strftime(clock)]

Commit(st) ==
    /\ speakers' = st.speakers
    /\ speaker_timings' = st.speaker_timings
    /\ transcript' = st.transcript
    /\ last_speaker_id' = st.last_speaker_id
    /\ transcript_calls' = st.transcript_calls
    /\ speaker_change_calls' = st.speaker_change_calls
    /\ finalized' = st.finalized

(* _process_words_with_speakers *)
process_words_with_speakers(words) ==
    \E word_data \in {WordData(words)} :
      \E v \in {validate_speaker_assignments(word_data, speaker_history,
                     speaker_consistency_scores, recorded, last_speaker_id,
                     speaker_timings)} :
        \E st \in {process_validated_segments(ProcessingState, v.segments,
                        on_transcript_callback, on_speaker_change_callback)} :
          /\ speaker_history' = v.speaker_history
          /\ speaker_consistency_scores' = v.scores
          /\ recorded' = v.recorded
          /\ recording_log' = recording_log \o SpeakerIdsOf(v.validated_words)
          /\ validated_segments' = v.segments
          /\ word_trace' = v.trace
          /\ Commit(st)

HasTextUnstripped(sentence) == sentence # <<>>

(* if sentence and sentence.strip() *)
HasText(sentence) == sentence # <<>> /\ Strip(sentence) # <<>>

FallbackSpeakerZero(last) == 0

(* self.last_speaker_id if self.last_speaker_id is not None else 0 *)
FallbackSpeaker(last) == IF last # NoneId THEN last ELSE 0

(* The instance inst after _process_validated_segments left it as st *)
Processed(inst, st) ==
    [inst EXCEPT !.speakers = st.speakers,
                 !.speaker_timings = st.speaker_timings,
                 !.transcript = st.transcript,
                 !.last_speaker_id = st.last_speaker_id,
                 !.transcript_calls = st.transcript_calls,
                 !.speaker_change_calls = st.speaker_change_calls,
                 !.finalized = st.finalized]

(* _handle_transcript_result run on another instance, given as the record  *)
(* of its fields, with the same callbacks installed                        *)
ResultHandledBy(inst, result, on_transcript, on_speaker_change) ==
    IF ~HasText(result.sentence) THEN inst
    ELSE IF result.words = <<>>
    THEN process_single_speaker_segment([inst EXCEPT !.timestamp = strftime(clock)],
                                        Strip(result.sentence),
                                        FallbackSpeaker(inst.last_speaker_id),
                                        on_transcript, on_speaker_change)
    ELSE Bind(validate_speaker_assignments(WordData(result.words),
                  inst.speaker_history, inst.speaker_consistency_scores,
                  inst.recorded, inst.last_speaker_id, inst.speaker_timings),
              LAMBDA v :
                Bind(process_validated_segments([inst EXCEPT !.timestamp = strftime(clock)],
                                                v.segments,
                                                on_transcript, on_speaker_change),
                     LAMBDA st :
                       [Processed(inst, st) EXCEPT
                           !.timestamp = st.timestamp,
                           !.speaker_history = v.speaker_history,
                           !.speaker_consistency_scores = v.scores,
                           !.recorded = v.recorded]))

(* _handle_transcript_result, the handler of the upstream Transcript event *)
handle_transcript_result(result) ==
    /\ last_op' = [name |-> "handle_transcript_result", result |-> result]
    /\ UNCHANGED callbacks
    /\ IF HasText(result.sentence)
       THEN IF result.words = <<>>
            THEN /\ \E st \in {process_single_speaker_segment(ProcessingState,
                                  Strip(result.sentence),
                                  FallbackSpeaker(last_speaker_id),
                                  on_transcript_callback, on_speaker_change_callback)} :
                      Commit(st)
                 /\ UNCHANGED <<speaker_history, speaker_consistency_scores,
                                recordings, validation, diarization_enabled>>
            ELSE /\ process_words_with_speakers(result.words)
                 /\ diarization_enabled' =
                        (diarization_enabled
                           \/ \E i \in 1 .. Len(result.words) :
                                 result.words[i].speaker # NoneId)
       ELSE UNCHANGED <<session, calls, validation, recordings, finalized,
                        diarization_enabled>>

(* The upstream engine delivers a result (on_message) *)
HandleTranscriptResult(result) ==
    /\ results_handled < MaxResults
    /\ results_handled' = results_handled + 1
    /\ handle_transcript_result(result)
    /\ fresh_instance' = ResultHandledBy(fresh_instance, result,
                               on_transcript_callback, on_speaker_change_callback)
    /\ UNCHANGED <<outside, threads>>

(* process_batch([]): _process_words_with_speakers called with no words *)
ProcessEmptyBatch ==
    /\ results_handled < MaxResults
    /\ results_handled' = results_handled + 1
    /\ last_op' = [name |-> "process_words_with_speakers", words |-> <<>>]
    /\ UNCHANGED <<callbacks, twin, threads, outside, diarization_enabled>>
    /\ process_words_with_speakers(<<>>)

ClearSessionKeepsRegistry ==
    /\ transcript' = <<>>
    /\ last_speaker_id' = NoneId
    /\ speaker_history' = <<>>
    /\ speaker_timings' = EmptyMap
    /\ speaker_consistency_scores' = EmptyMap
    /\ recorded' = {}
    /\ recording_log' = <<>>
    /\ finalized' = <<>>
    /\ last_op' = [name |-> "clear_session"]
    /\ fresh_instance' = FreshInstance
    /\ diarization_enabled' = FALSE
    /\ UNCHANGED <<speakers, callbacks, calls, validation, results_handled,
                    outside, threads>>

ClearSessionKeepsAnchor ==
    /\ speakers' = <<>>
    /\ transcript' = <<>>
    /\ speaker_history' = <<>>
    /\ speaker_timings' = EmptyMap
    /\ speaker_consistency_scores' = EmptyMap
    /\ recorded' = {}
    /\ recording_log' = <<>>
    /\ finalized' = <<>>
    /\ last_op' = [name |-> "clear_session"]
    /\ fresh_instance' = FreshInstance
    /\ diarization_enabled' = FALSE
    /\ UNCHANGED <<last_speaker_id, callbacks, calls, validation, results_handled,
                    outside, threads>>

(* clear_session; the second instance is constructed anew *)
ClearSession ==
    /\ speakers' = <<>>
    /\ transcript' = <<>>
    /\ last_speaker_id' = NoneId
    /\ speaker_history' = <<>>
    /\ speaker_timings' = EmptyMap
    /\ speaker_consistency_scores' = EmptyMap
    /\ recorded' = {}
    /\ recording_log' = <<>>
    /\ finalized' = <<>>
    /\ last_op' = [name |-> "clear_session"]
    /\ fresh_instance' = FreshInstance
    /\ diarization_enabled' = FALSE
    /\ UNCHANGED <<callbacks, calls, validation, results_handled, outside, threads>>

(* set_callbacks; its callers install the callbacks before the connection *)
(* is started (app.py:227, deepgram_service.py:578)                        *)
SetCallbacks(choice) ==
    /\ results_handled = 0
    /\ on_transcript_callback' = choice[1]
    /\ on_speaker_change_callback' = choice[2]
    /\ last_op' = [name |-> "set_callbacks"]
    /\ UNCHANGED <<session, calls, validation, recordings, finalized,
                    results_handled, twin, threads, outside, diarization_enabled>>

Next ==
    \/ \E result \in Results : HandleTranscriptResult(result)
    \/ ProcessEmptyBatch
    \/ ClearSession
    \/ \E choice \in CallbackChoices : SetCallbacks(choice)

Spec == Init /\ [][Next]_vars

----------------------------------------------------------------------------
(* SpecBatch: a session that has handled at most one earlier result        *)
(* validates one batch drawn from every labelling, confidence assignment   *)
(* and timing kind of up to MaxBatchWords words.                           *)

Confidences == {5, 8}

BatchShapes ==
    UNION {[1 .. n -> BatchSpeakerIds \X Confidences] : n \in 1 .. MaxBatchWords}

ShapedWords(shape, kind) ==
    [i \in 1 .. Len(shape) |->
        [word |-> <<WordToken(i)>>,
         speaker |-> shape[i][1],
         confidence |-> shape[i][2],
         start |-> (i - 1) * (kind.duration + kind.gap),
         end |-> (i - 1) * (kind.duration + kind.gap) + kind.duration]]

BatchResults ==
    {[sentence |-> SentenceOf(ShapedWords(sh, k)), words |-> ShapedWords(sh, k)] :
        sh \in BatchShapes, k \in Kinds}

(* Earlier results that leave the session with a last speaker 0, 1 or 2,   *)
(* with and without timing profiles                                        *)
PriorResults ==
    FallbackResults
    \cup {[sentence |-> SentenceOf(w), words |-> w] :
            w \in {GeneratedWords(<<0>>, RapidKind),
                   GeneratedWords(<<2>>, RapidKind),
                   GeneratedWords(<<1, 0, 1>>, PausedKind),
                   GeneratedWords(<<0, 1, 0>>, PausedKind)}}

PrimeSession(result) ==
    /\ results_handled = 0
    /\ results_handled' = 1
    /\ handle_transcript_result(result)
    /\ UNCHANGED <<twin, threads, outside>>

ValidateBatch(result) ==
    /\ results_handled <= 1
    /\ results_handled' = 2
    /\ handle_transcript_result(result)
    /\ UNCHANGED <<twin, threads, outside>>

NextBatch ==
    \/ \E result \in PriorResults : PrimeSession(result)
    \/ \E result \in BatchResults : ValidateBatch(result)

SpecBatch == Init /\ [][NextBatch]_vars


----------------------------------------------------------------------------
(* SpecLifecycle: the connection to the upstream engine is started,        *)
(* stopped and closed while results arrive on it.                          *)

(* What start_diarization can meet: the connection starts; the connection *)
(* object is created but connection.start returns False or raises; or      *)
(* creating the connection object raises                                   *)
StartOutcomes == {"started", "refused", "raised"}

(* self.is_active = value, with the record of a departure from Active *)
SetActive(value) ==
    /\ is_active' = value
    /\ left_active' = (left_active \/ (is_active /\ ~value))

(* start_diarization; on_open runs when the connection starts *)
start_diarization(outcome) ==
    /\ connection' = (IF outcome = "started" THEN "open"
                      ELSE IF outcome = "refused" THEN "closed"
                      ELSE connection)
    /\ IF outcome = "started" THEN SetActive(TRUE) ELSE UNCHANGED <<is_active, left_active>>
    /\ finish_calls' = (IF outcome = "started" THEN 0 ELSE finish_calls)
    /\ UNCHANGED stop_invoked
    /\ diarization_enabled' = (diarization_enabled \/ outcome = "started")

StartDiarization(outcome) ==
    /\ start_diarization(outcome)
    /\ last_op' = [name |-> "start_diarization", outcome |-> outcome]
    /\ UNCHANGED <<session, callbacks, calls, twin, threads, clock, summary, socket,
                    validation, recordings, finalized, results_handled>>

(* What connection.finish() can do: close the connection and return, or   *)
(* raise and leave the connection as it is                                 *)
FinishOutcomes == {"finished", "raised"}

stop_diarization_finish_first(finish) ==
    /\ stop_invoked' = TRUE
    /\ IF connection # "none" /\ is_active
       THEN /\ finish_calls' = finish_calls + 1
            /\ IF finish = "finished"
               THEN SetActive(FALSE) /\ connection' = "closed"
               ELSE UNCHANGED <<connection, is_active, left_active>>
       ELSE UNCHANGED <<connection, is_active, left_active, finish_calls>>

(* stop_diarization: is_active is cleared before finish() is called, and   *)
(* an exception of finish() is caught and logged                           *)
stop_diarization(finish) ==
    /\ stop_invoked' = TRUE
    /\ IF connection # "none" /\ is_active
       THEN /\ SetActive(FALSE)
            /\ finish_calls' = finish_calls + 1
            /\ connection' = (IF finish = "finished" THEN "closed" ELSE connection)
       ELSE UNCHANGED <<connection, is_active, left_active, finish_calls>>

StopDiarization ==
    /\ \E finish \in FinishOutcomes : stop_diarization(finish)
    /\ last_op' = [name |-> "stop_diarization"]
    /\ UNCHANGED <<session, callbacks, calls, twin, threads, clock, summary, socket,
                    diarization_enabled,
                    validation, recordings, finalized, results_handled>>

(* on_close: the upstream engine closes the connection *)
OnClose ==
    /\ connection = "open"
    /\ connection' = "closed"
    /\ SetActive(FALSE)
    /\ UNCHANGED <<stop_invoked, finish_calls>>
    /\ last_op' = [name |-> "on_close"]
    /\ UNCHANGED <<session, callbacks, calls, twin, threads, clock, summary, socket,
                    diarization_enabled,
                    validation, recordings, finalized, results_handled>>

(* on_message: a result arrives on the open connection *)
OnMessage(result) ==
    /\ connection = "open"
    /\ HandleTranscriptResult(result)

NextLifecycle ==
    \/ \E outcome \in StartOutcomes : StartDiarization(outcome)
    \/ StopDiarization
    \/ OnClose
    \/ \E result \in PriorResults : OnMessage(result)

SpecLifecycle == Init /\ [][NextLifecycle]_vars

----------------------------------------------------------------------------
(* SpecSummary: summaries are taken while the wall clock advances, results *)
(* arrive and the session is cleared.                                      *)

MaxTicks == 3          \* seconds the wall clock advances per behaviour of SpecSummary

calculate_session_duration_reversed(tr) ==
    IF tr = <<>> THEN "00:00:00"
    ELSE LET start_dt == strptime(tr[1].time)
             end_dt == strptime(tr[Len(tr)].time)
         IN  IF start_dt.ok /\ end_dt.ok
             THEN str_timedelta(start_dt.seconds - end_dt.seconds)
             ELSE "Unknown"

(* _calculate_session_duration *)
calculate_session_duration(tr) ==
    IF tr = <<>> THEN "00:00:00"
    ELSE LET start_dt == strptime(tr[1].time)
             end_dt == strptime(tr[Len(tr)].time)
         IN  IF start_dt.ok /\ end_dt.ok
             THEN str_timedelta(end_dt.seconds - start_dt.seconds)
             ELSE "Unknown"

(* The speaker_stats dict get_session_summary builds from the transcript *)
SpeakerStats(tr) ==
    [speaker \in {tr[i].speaker : i \in 1 .. Len(tr)} |->
        [utterances |-> Cardinality({i \in 1 .. Len(tr) : tr[i].speaker = speaker}),
         words |-> SumSeq([i \in 1 .. Len(tr) |->
                             IF tr[i].speaker = speaker THEN SplitCount(tr[i].text) ELSE 0])]]

(* get_session_summary *)
get_session_summary(sp, tr, enabled) ==
    [diarization_enabled |-> enabled,
     speakers_detected |-> Len(sp),
     speakers |-> [i \in 1 .. Len(sp) |-> sp[i].name],
     speaker_stats |-> SpeakerStats(tr),
     total_utterances |-> Len(tr),
     session_duration |-> calculate_session_duration(tr)]

GetSessionSummary ==
    /\ summary' = get_session_summary(speakers, transcript, diarization_enabled)
    /\ last_op' = [name |-> "get_session_summary"]
    /\ UNCHANGED <<session, callbacks, calls, twin, threads, lifecycle, clock, socket,
                    diarization_enabled,
                    validation, recordings, finalized, results_handled>>

(* A second of wall-clock time passes *)
Tick ==
    /\ clock < SessionStart + MaxTicks
    /\ clock' = clock + 1
    /\ last_op' = [name |-> "tick"]
    /\ UNCHANGED <<session, callbacks, calls, twin, threads, lifecycle, summary, socket,
                    diarization_enabled,
                    validation, recordings, finalized, results_handled>>

(* The results of a summarised session: fallback, blank, one word, and a   *)
(* batch of two speakers separated by pauses                               *)
SummaryResults ==
    FallbackResults \cup BlankResults
    \cup {[sentence |-> SentenceOf(w), words |-> w] :
            w \in {GeneratedWords(<<1>>, RapidKind),
                   GeneratedWords(<<0, 0, 1, 1>>, PausedKind)}}

NextSummary ==
    \/ \E result \in SummaryResults : HandleTranscriptResult(result)
    \/ ClearSession
    \/ Tick
    \/ GetSessionSummary

SpecSummary == Init /\ [][NextSummary]_vars

----------------------------------------------------------------------------
(* SpecSocket: transcribe_websocket (app.py) serves one client.  The       *)
(* handler thread installs the callbacks, starts the upstream connection,  *)
(* announces itself and then reads client messages; the upstream engine's  *)
(* listener thread delivers results, errors and the close event through    *)
(* the handlers start_diarization registered, concurrently.                *)

MaxMessages == 3         \* client messages read per behaviour of SpecSocket
MaxUpstreamErrors == 1   \* Error events of the upstream engine per behaviour of SpecSocket

Sent(type) == [dir |-> "sent", type |-> type]
Read(type) == [dir |-> "read", type |-> type]

(* What ws.receive() returns: audio bytes, a JSON command, text that is    *)
(* not JSON, or None when the client has gone                              *)
ClientMessages == {"audio", "stop", "get_summary", "get_transcript", "invalid", "closed"}

CountIn(log, entry) == Cardinality({i \in 1 .. Len(log) : log[i] = entry})

ReadsOf(log) == Cardinality({i \in 1 .. Len(log) : log[i].dir = "read"})

WsStep(at) == last_op' = [name |-> "transcribe_websocket", at |-> at]

(* app.py:227 *)
WsSetCallbacks ==
    /\ ws_pc = "accepted"
    /\ on_transcript_callback' = TRUE
    /\ on_speaker_change_callback' = TRUE
    /\ ws_pc' = "start"
    /\ WsStep("set_callbacks")
    /\ UNCHANGED <<session, calls, twin, threads, lifecycle, clock, summary, diarization_enabled,
                    ws_log, ws_message, start_success, audio_sent,
                    validation, recordings, finalized, results_handled>>

(* app.py:240-254.  When start_diarization catches an exception it calls   *)
(* the error callback, which sends "error", and returns False; the handler *)
(* then sends its own "error" and returns through the finally block.       *)
WsStart(outcome) ==
    /\ ws_pc = "start"
    /\ start_diarization(outcome)
    /\ start_success' = (IF outcome = "started" THEN "True" ELSE "False")
    /\ ws_log' = (IF outcome = "started" THEN ws_log
                  ELSE IF outcome = "raised"
                       THEN ws_log \o <<Sent("error"), Sent("error")>>
                       ELSE Append(ws_log, Sent("error")))
    /\ ws_pc' = (IF outcome = "started" THEN "started" ELSE "finally")
    /\ WsStep("start")
    /\ UNCHANGED <<session, callbacks, calls, twin, threads, clock, summary, ws_message, audio_sent,
                    validation, recordings, finalized, results_handled>>

(* app.py:257 *)
WsReady ==
    /\ ws_pc = "started"
    /\ ws_log' = Append(ws_log, Sent("ready"))
    /\ ws_pc' = "receive"
    /\ WsStep("ready")
    /\ UNCHANGED <<session, callbacks, calls, twin, threads, lifecycle, clock, summary,
                    diarization_enabled, ws_message, start_success, audio_sent,
                    validation, recordings, finalized, results_handled>>

(* app.py:264 *)
WsReceive(message) ==
    /\ ws_pc = "receive"
    /\ ReadsOf(ws_log) < MaxMessages
    /\ ws_message' = message
    /\ ws_log' = Append(ws_log, Read(message))
    /\ ws_pc' = "handle"
    /\ WsStep("receive")
    /\ UNCHANGED <<session, callbacks, calls, twin, threads, lifecycle, clock, summary,
                    diarization_enabled, start_success, audio_sent,
                    validation, recordings, finalized, results_handled>>

(* app.py:266-267 and 279-280: break *)
WsStop ==
    /\ ws_pc = "handle"
    /\ ws_message \in {"closed", "stop"}
    /\ ws_pc' = "finally"
    /\ WsStep("stop")
    /\ UNCHANGED <<session, callbacks, calls, twin, threads, lifecycle, clock, summary,
                    diarization_enabled, ws_log, ws_message, start_success, audio_sent,
                    validation, recordings, finalized, results_handled>>

(* ws.receive() raises: the except block (app.py:295-300) tries to send    *)
(* "error", which reaches the client or not, and the finally block follows *)
WsRaise(delivered) ==
    /\ ws_pc = "receive"
    /\ ws_log' = (IF delivered THEN Append(ws_log, Sent("error")) ELSE ws_log)
    /\ ws_pc' = "finally"
    /\ WsStep("except")
    /\ UNCHANGED <<session, callbacks, calls, twin, threads, lifecycle, clock, summary,
                    diarization_enabled, ws_message, start_success, audio_sent,
                    validation, recordings, finalized, results_handled>>

(* The finally block, app.py:301-306 *)
WsFinally ==
    /\ ws_pc = "finally"
    /\ \E finish \in FinishOutcomes : stop_diarization(finish)
    /\ ws_pc' = "done"
    /\ WsStep("finally")
    /\ UNCHANGED <<session, callbacks, calls, twin, threads, clock, summary, diarization_enabled,
                    ws_log, ws_message, start_success, audio_sent,
                    validation, recordings, finalized, results_handled>>

send_audio_without_guard ==
    audio_sent' = audio_sent + 1

(* send_audio *)
send_audio ==
    audio_sent' = (IF connection # "none" /\ is_active THEN audio_sent + 1 ELSE audio_sent)

(* app.py:270-272, the upstream send returning; SendAudio of SpecAudio     *)
(* covers the send that raises                                             *)
WsForwardAudio ==
    /\ ws_pc = "handle"
    /\ ws_message = "audio"
    /\ send_audio
    /\ ws_pc' = "receive"
    /\ WsStep("audio")
    /\ UNCHANGED <<session, callbacks, calls, twin, threads, lifecycle, clock, summary,
                    diarization_enabled, ws_log, ws_message, start_success,
                    validation, recordings, finalized, results_handled>>

(* app.py:281-286 *)
WsSummary ==
    /\ ws_pc = "handle"
    /\ ws_message = "get_summary"
    /\ summary' = get_session_summary(speakers, transcript, diarization_enabled)
    /\ ws_log' = Append(ws_log, Sent("summary"))
    /\ ws_pc' = "receive"
    /\ WsStep("get_summary")
    /\ UNCHANGED <<session, callbacks, calls, twin, threads, lifecycle, clock,
                    diarization_enabled, ws_message, start_success, audio_sent,
                    validation, recordings, finalized, results_handled>>

(* app.py:287-291 *)
WsFullTranscript ==
    /\ ws_pc = "handle"
    /\ ws_message = "get_transcript"
    /\ ws_log' = Append(ws_log, Sent("full_transcript"))
    /\ ws_pc' = "receive"
    /\ WsStep("get_transcript")
    /\ UNCHANGED <<session, callbacks, calls, twin, threads, lifecycle, clock, summary,
                    diarization_enabled, ws_message, start_success, audio_sent,
                    validation, recordings, finalized, results_handled>>

(* app.py:292-293 *)
WsInvalid ==
    /\ ws_pc = "handle"
    /\ ws_message = "invalid"
    /\ ws_pc' = "receive"
    /\ WsStep("invalid")
    /\ UNCHANGED <<session, callbacks, calls, twin, threads, lifecycle, clock, summary,
                    diarization_enabled, ws_log, ws_message, start_success, audio_sent,
                    validation, recordings, finalized, results_handled>>

(* The messages the callbacks of app.py send while a result is handled:    *)
(* "speaker_change" for a newly registered voice, then "transcript", for   *)
(* each entry in turn                                                      *)
RECURSIVE CallbackMessages(_, _)
CallbackMessages(entries, changes) ==
    IF entries = <<>> THEN <<>>
    ELSE IF changes # <<>> /\ Head(changes).speaker_id = Head(entries).speaker_id
    THEN <<Sent("speaker_change"), Sent("transcript")>>
           \o CallbackMessages(Tail(entries), Tail(changes))
    ELSE <<Sent("transcript")>> \o CallbackMessages(Tail(entries), changes)

(* on_message on the listener thread, once audio has been forwarded *)
UpstreamResult(result) ==
    /\ connection = "open"
    /\ audio_sent > 0
    /\ results_handled < MaxResults
    /\ results_handled' = results_handled + 1
    /\ handle_transcript_result(result)
    /\ fresh_instance' = ResultHandledBy(fresh_instance, result,
                               on_transcript_callback, on_speaker_change_callback)
    /\ ws_log' = ws_log \o CallbackMessages(AddedTo(transcript_calls, transcript_calls'),
                                             AddedTo(speaker_change_calls,
                                                     speaker_change_calls'))
    /\ UNCHANGED <<lifecycle, clock, summary, ws_pc, ws_message, start_success, audio_sent,
                    threads>>

(* on_error on the listener thread: the error callback sends "error" *)
UpstreamError ==
    /\ connection = "open"
    /\ CountIn(ws_log, Sent("error")) < MaxUpstreamErrors
    /\ ws_log' = Append(ws_log, Sent("error"))
    /\ last_op' = [name |-> "on_error"]
    /\ UNCHANGED <<session, callbacks, calls, twin, threads, lifecycle, clock, summary,
                    diarization_enabled, ws_pc, ws_message, start_success, audio_sent,
                    validation, recordings, finalized, results_handled>>

(* Results the upstream engine delivers to a served client *)
SocketResults ==
    FallbackResults
    \cup {[sentence |-> SentenceOf(w), words |-> w] :
            w \in {GeneratedWords(<<1>>, RapidKind)}}

NextSocket ==
    \/ WsSetCallbacks
    \/ \E outcome \in StartOutcomes : WsStart(outcome)
    \/ WsReady
    \/ \E message \in ClientMessages : WsReceive(message)
    \/ WsStop
    \/ \E delivered \in BOOLEAN : WsRaise(delivered)
    \/ WsFinally
    \/ WsForwardAudio
    \/ WsSummary
    \/ WsFullTranscript
    \/ WsInvalid
    \/ \E result \in SocketResults : UpstreamResult(result)
    \/ UpstreamError
    \/ OnClose

SpecSocket == Init /\ [][NextSocket]_vars

----------------------------------------------------------------------------
(* SpecHistory: a session handles enough word-level results for the        *)
(* history window to overflow, with clear_session in between.              *)

MaxHistoryResults == 4

HistoryResults ==
    {[sentence |-> SentenceOf(GeneratedWords(p, k)), words |-> GeneratedWords(p, k)] :
        p \in Patterns, k \in Kinds}

RecordBatch(result) ==
    /\ results_handled < MaxHistoryResults
    /\ results_handled' = results_handled + 1
    /\ handle_transcript_result(result)
    /\ UNCHANGED <<twin, threads, outside>>

NextHistory ==
    \/ \E result \in HistoryResults : RecordBatch(result)
    \/ ClearSession

SpecHistory == Init /\ [][NextHistory]_vars

----------------------------------------------------------------------------
(* SpecTiming: a session that has handled at most one earlier result       *)
(* validates one batch whose words carry the times the engine gave them,   *)
(* whatever they are: no timing at all (0.0, 0.0), an end before the       *)
(* start, or words that are not in the order of their times.               *)

MaxTimedWords == 3

(* (start, end) of a word, in tenths of a second *)
TimeSpans == {<<0, 0>>, <<0, 2>>, <<2, 4>>, <<4, 2>>, <<20, 22>>}

TimedShapes ==
    UNION {[1 .. n -> BatchSpeakerIds \X TimeSpans] : n \in 1 .. MaxTimedWords}

TimedWords(shape) ==
    [i \in 1 .. Len(shape) |->
        [word |-> <<WordToken(i)>>,
         speaker |-> shape[i][1],
         confidence |-> 8,
         start |-> shape[i][2][1],
         end |-> shape[i][2][2]]]

TimedResults ==
    {[sentence |-> SentenceOf(TimedWords(sh)), words |-> TimedWords(sh)] :
        sh \in TimedShapes}

NextTiming ==
    \/ \E result \in PriorResults : PrimeSession(result)
    \/ \E result \in TimedResults : ValidateBatch(result)

SpecTiming == Init /\ [][NextTiming]_vars

----------------------------------------------------------------------------
(* SpecRace: the listener thread of the upstream connection handles a      *)
(* word-level result while another thread runs clear_session.  Neither     *)
(* method takes a lock, so the two threads interleave between statements;  *)
(* each thread is cut once: _process_words_with_speakers between the       *)
(* return of _validate_speaker_assignments (line 180) and the call of      *)
(* _process_validated_segments (line 183), clear_session between the       *)
(* session data (lines 553-555) and the tracking data (lines 558-562).     *)

(* The earlier result of the session, handled before either thread starts *)
RacePrime(result) ==
    /\ handler_pc = "idle"
    /\ clear_pc = "idle"
    /\ PrimeSession(result)

(* _handle_transcript_result up to line 180 of _process_words_with_speakers *)
RaceValidate(result) ==
    /\ handler_pc = "idle"
    /\ HasText(result.sentence)
    /\ result.words # <<>>
    /\ handler_pc' = "validated"
    /\ results_handled' = 2
    /\ last_op' = [name |-> "handle_transcript_result", result |-> result]
    /\ \E v \in {validate_speaker_assignments(WordData(result.words), speaker_history,
                       speaker_consistency_scores, recorded, last_speaker_id,
                       speaker_timings)} :
          /\ speaker_history' = v.speaker_history
          /\ speaker_consistency_scores' = v.scores
          /\ recorded' = v.recorded
          /\ recording_log' = recording_log \o SpeakerIdsOf(v.validated_words)
          /\ validated_segments' = v.segments
          /\ word_trace' = v.trace
    /\ diarization_enabled' =
           (diarization_enabled
              \/ \E i \in 1 .. Len(result.words) : result.words[i].speaker # NoneId)
    /\ UNCHANGED <<speakers, transcript, last_speaker_id, speaker_timings, callbacks,
                    calls, finalized, twin, outside, clear_pc, stop_pc>>

(* line 183: _process_validated_segments(validated_segments) *)
RaceProcess ==
    /\ handler_pc = "validated"
    /\ handler_pc' = "done"
    /\ \E st \in {process_validated_segments(ProcessingState, validated_segments,
                        on_transcript_callback, on_speaker_change_callback)} :
          Commit(st)
    /\ UNCHANGED <<speaker_history, speaker_consistency_scores, callbacks, last_op,
                    validation, recordings, results_handled, twin, outside,
                    diarization_enabled, clear_pc, stop_pc>>

(* clear_session, lines 553-555 *)
RaceClearSessionData ==
    /\ clear_pc = "idle"
    /\ clear_pc' = "tracking"
    /\ speakers' = <<>>
    /\ transcript' = <<>>
    /\ diarization_enabled' = FALSE
    /\ finalized' = <<>>
    /\ UNCHANGED <<last_speaker_id, speaker_history, speaker_timings,
                    speaker_consistency_scores, callbacks, calls, last_op, validation,
                    recordings, results_handled, twin, outside, handler_pc,
                    stop_pc>>

(* clear_session, lines 558-562 *)
RaceClearTrackingData ==
    /\ clear_pc = "tracking"
    /\ clear_pc' = "done"
    /\ last_speaker_id' = NoneId
    /\ speaker_history' = <<>>
    /\ speaker_timings' = EmptyMap
    /\ speaker_consistency_scores' = EmptyMap
    /\ recorded' = {}
    /\ recording_log' = <<>>
    /\ UNCHANGED <<speakers, transcript, callbacks, calls, last_op, validation, finalized,
                    results_handled, twin, outside, diarization_enabled, handler_pc,
                    stop_pc>>

NextRace ==
    \/ \E result \in PriorResults : RacePrime(result)
    \/ \E result \in WordResults : RaceValidate(result)
    \/ RaceProcess
    \/ RaceClearSessionData
    \/ RaceClearTrackingData

SpecRace == Init /\ [][NextRace]_vars

----------------------------------------------------------------------------
(* SpecDelivery: results are delivered on the listener thread of the       *)
(* upstream connection while another thread stops the session.             *)
(* stop_diarization is cut between self.is_active = False (line 480) and   *)
(* self.connection.finish() (line 481), which closes the connection.       *)

(* A result whose word list is neither empty nor a sequence: len(words)    *)
(* raises TypeError at line 140                                            *)
NotIterableResult == [sentence |-> <<"Okay">>, words |-> "not iterable"]

(* A result with one word to which the engine gave no speaker label *)
UnlabelledResult ==
    [sentence |-> SentenceOf(GeneratedWords(<<NoneId>>, RapidKind)),
     words |-> GeneratedWords(<<NoneId>>, RapidKind)]

DeliveryResults == PriorResults \cup {UnlabelledResult}

(* start_diarization on an instance that has no connection yet *)
DeliveryStart ==
    /\ connection = "none"
    /\ StartDiarization("started")

(* stop_diarization, lines 478-480 *)
StopSetsInactive ==
    /\ stop_pc = "idle"
    /\ connection # "none" /\ is_active
    /\ stop_pc' = "finish"
    /\ SetActive(FALSE)
    /\ stop_invoked' = TRUE
    /\ UNCHANGED finish_calls
    /\ last_op' = [name |-> "stop_diarization"]
    /\ UNCHANGED <<session, callbacks, calls, twin, handler_pc, clear_pc, connection,
                    clock, summary, socket, diarization_enabled,
                    validation, recordings, finalized, results_handled>>

(* stop_diarization, line 481: self.connection.finish() *)
StopFinishes ==
    /\ stop_pc = "finish"
    /\ stop_pc' = "done"
    /\ connection' = "closed"
    /\ finish_calls' = finish_calls + 1
    /\ UNCHANGED <<session, callbacks, calls, twin, handler_pc, clear_pc, is_active,
                    left_active, stop_invoked, clock, summary, socket, diarization_enabled, observed>>

(* on_message with a result whose word list is not iterable: the exception *)
(* is caught and logged at lines 148-149 and the handler returns           *)
OnMessageNotIterable ==
    /\ connection = "open"
    /\ results_handled < MaxResults
    /\ results_handled' = results_handled + 1
    /\ last_op' = [name |-> "handle_transcript_result",
                   result |-> NotIterableResult,
                   raised |-> "TypeError",
                   propagated |-> FALSE]
    /\ UNCHANGED <<session, callbacks, calls, validation, recordings, finalized,
                    twin, threads, outside, diarization_enabled>>

NextDelivery ==
    \/ DeliveryStart
    \/ StopSetsInactive
    \/ StopFinishes
    \/ OnClose
    \/ \E result \in DeliveryResults : OnMessage(result)
    \/ OnMessageNotIterable

SpecDelivery == Init /\ [][NextDelivery]_vars

----------------------------------------------------------------------------
(* SpecStop: transcribe_websocket serves one client up to its exit, the    *)
(* upstream engine closes the connection when it likes, and the holder of  *)
(* the instance calls stop_diarization on its own as well; no result       *)
(* arrives.                                                                *)

NextStop ==
    \/ WsSetCallbacks
    \/ \E outcome \in StartOutcomes : WsStart(outcome)
    \/ WsReady
    \/ \E message \in ClientMessages : WsReceive(message)
    \/ WsStop
    \/ \E delivered \in BOOLEAN : WsRaise(delivered)
    \/ WsFinally
    \/ WsForwardAudio
    \/ WsSummary
    \/ WsFullTranscript
    \/ WsInvalid
    \/ OnClose
    \/ StopDiarization

SpecStop == Init /\ [][NextStop]_vars

----------------------------------------------------------------------------
(* SpecAudio: the holder of an instance starts it, sends audio, stops it   *)
(* and starts it again in any order, while the upstream engine delivers    *)
(* results on the open connection and closes it.                           *)

MaxAudio == 2            \* chunks forwarded upstream per behaviour of SpecAudio

(* What connection.send() can do *)
SendOutcomes == {"sent", "raised"}

(* send_audio called by the holder of the instance; on_error records       *)
(* whether the error callback was called (lines 471-474)                   *)
SendAudio(outcome) ==
    /\ audio_sent < MaxAudio
    /\ send_audio
    /\ last_op' = [name |-> "send_audio",
                   outcome |-> outcome,
                   on_error |-> (connection # "none" /\ is_active /\ outcome = "raised")]
    /\ UNCHANGED <<session, callbacks, calls, twin, threads, lifecycle, clock, summary,
                    diarization_enabled, ws_pc, ws_log, ws_message, start_success,
                    validation, recordings, finalized, results_handled>>

(* Results the upstream engine delivers while audio is sent *)
AudioResults ==
    FallbackResults
    \cup {[sentence |-> SentenceOf(w), words |-> w] :
            w \in {GeneratedWords(<<1, 0, 1>>, PausedKind)}}

NextAudio ==
    \/ \E outcome \in StartOutcomes : StartDiarization(outcome)
    \/ StopDiarization
    \/ OnClose
    \/ \E outcome \in SendOutcomes : SendAudio(outcome)
    \/ \E result \in AudioResults : OnMessage(result)

SpecAudio == Init /\ [][NextAudio]_vars

----------------------------------------------------------------------------
(* Vocabulary of the properties *)

(* A transcript text without any non-whitespace token *)
Blank(sentence) == \A i \in 1 .. Len(sentence) : sentence[i] = Space

(* The state was produced by handling a result that carried text and words *)
WordLevel(op) ==
    /\ op.name = "handle_transcript_result"
    /\ ~Blank(op.result.sentence)
    /\ op.result.words # <<>>

(* The state was produced by the single-speaker fallback *)
Fallback(op) ==
    /\ op.name = "handle_transcript_result"
    /\ ~Blank(op.result.sentence)
    /\ op.result.words = <<>>

(* The state was produced by a result without text or by an empty batch *)
EmptyInput(op) ==
    \/ op.name = "process_words_with_speakers" /\ op.words = <<>>
    \/ op.name = "handle_transcript_result" /\ Blank(op.result.sentence)

AlternatesOnEveryWord(words) ==
    /\ Len(words) >= 2
    /\ \A i \in 2 .. Len(words) : words[i].speaker # words[i - 1].speaker

RapidAndShort(words) ==
    /\ \A i \in 2 .. Len(words) : words[i].start - words[i - 1].end < max_rapid_switch_time
    /\ \A i \in 1 .. Len(words) : words[i].end - words[i].start < min_segment_duration

RECURSIVE SegmentWords(_)
SegmentWords(segments) ==
    IF segments = <<>> THEN <<>>
    ELSE Head(segments).words \o SegmentWords(Tail(segments))

WordCounts(segments) == [i \in 1 .. Len(segments) |-> Len(segments[i].words)]

----------------------------------------------------------------------------
(* C1  Anti-fragmentation: a batch whose raw speaker label alternates on   *)
(* every word, with every gap below 1.0 s and every word shorter than      *)
(* 0.3 s, is never grouped into a segment of fewer than 2 words, whatever  *)
(* the earlier history of the session.                                     *)
AntiFragmentation ==
    (/\ WordLevel(last_op)
     /\ AlternatesOnEveryWord(last_op.result.words)
     /\ RapidAndShort(last_op.result.words))
    => \A i \in 1 .. Len(validated_segments) :
          Len(validated_segments[i].words) >= min_words_for_speaker_change

(* C2  Clean alternation: on a fresh session with the speaker-change       *)
(* callback installed, the batch Hello/there (speaker 0), Hi/back          *)
(* (speaker 1) yields the entries "Speaker 1: Hello there" and             *)
(* "Speaker 2: Hi back" and exactly one notification, for raw id 1.        *)
CleanAlternationScenario ==
    (/\ results_handled = 1
     /\ on_speaker_change_callback
     /\ WordLevel(last_op)
     /\ last_op.result.words = CleanAlternationWords)
    => /\ Len(transcript) = 2
       /\ transcript[1].speaker = "Speaker 1"
       /\ transcript[1].text = <<"Hello", Space, "there">>
       /\ transcript[2].speaker = "Speaker 2"
       /\ transcript[2].text = <<"Hi", Space, "back">>
       /\ speaker_change_calls = <<[speaker_id |-> 1, speaker_name |-> "Speaker 2"]>>

(* C3  Segment contiguity: the segments returned for a non-empty batch     *)
(* partition it - their word counts add up to the number of input words    *)
(* and their word lists, concatenated in order, are the input word texts   *)
(* in the original order.                                                  *)
SegmentContiguity ==
    WordLevel(last_op)
    => /\ SumSeq(WordCounts(validated_segments)) = Len(last_op.result.words)
       /\ SegmentWords(validated_segments)
            = [i \in 1 .. Len(last_op.result.words) |-> last_op.result.words[i].word]

(* A batch of at least four words was split into three or more segments *)
SegmentContiguityWitness ==
    /\ WordLevel(last_op)
    /\ Len(last_op.result.words) >= 4
    /\ Len(validated_segments) >= 3


(* C4  Monotonic numbering: the N-th raw speaker id registered in a        *)
(* session is named "Speaker N"; the names in use are "Speaker 1" ..       *)
(* "Speaker k" without gap, and no two raw ids share a registry entry.     *)
MonotonicNumbering ==
    /\ \A i \in 1 .. Len(speakers) : speakers[i].name = "Speaker " \o ToString(i)
    /\ \A i, j \in 1 .. Len(speakers) : speakers[i].id = speakers[j].id => i = j

(* Three speakers are registered and the first of them is not raw id 0 *)
MonotonicNumberingWitness ==
    /\ Len(speakers) >= 3
    /\ speakers[1].id # 0

(* C5  Idempotent naming: no operation other than clear_session removes    *)
(* or renames a registry entry, and every transcript entry carries the     *)
(* registry's name for its raw speaker id.                                 *)
IdempotentNaming ==
    [][/\ last_op'.name # "clear_session"
          => /\ Len(speakers') >= Len(speakers)
             /\ \A i \in 1 .. Len(speakers) : speakers'[i] = speakers[i]
       /\ \A j \in 1 .. Len(transcript') :
             /\ Registered(speakers', transcript'[j].speaker_id)
             /\ transcript'[j].speaker
                  = speakers'[CHOOSE i \in 1 .. Len(speakers') :
                                 speakers'[i].id = transcript'[j].speaker_id].name]_vars

(* A speaker has an entry, another speaker has a later one, and the first  *)
(* speaker has an entry after that                                         *)
IdempotentNamingWitness ==
    \E i, j, k \in 1 .. Len(transcript) :
        /\ i < j /\ j < k
        /\ transcript[i].speaker_id = transcript[k].speaker_id
        /\ transcript[i].speaker_id # transcript[j].speaker_id
        /\ transcript[i].speaker = transcript[k].speaker

(* Registry entries added by a step, and those among them registered       *)
(* second or later                                                         *)
NewRegistrations ==
    IF Len(speakers') > Len(speakers)
    THEN SubSeq(speakers', Len(speakers) + 1, Len(speakers'))
    ELSE <<>>

NewVoices ==
    IF speakers = <<>> /\ NewRegistrations # <<>>
    THEN Tail(NewRegistrations)
    ELSE NewRegistrations

(* C6  Speaker-change notification: while the speaker-change callback is   *)
(* installed, each step calls it exactly once for every raw id that the    *)
(* step registers second or later, in registration order and with the      *)
(* assigned name, and makes no other call to it.                           *)
SpeakerChangeNotification ==
    [][(on_speaker_change_callback /\ on_speaker_change_callback')
        => speaker_change_calls'
             = speaker_change_calls
               \o [i \in 1 .. Len(NewVoices) |->
                     [speaker_id |-> NewVoices[i].id,
                      speaker_name |-> NewVoices[i].name]]]_vars

(* Two notifications were made and some speaker took more than one turn *)
SpeakerChangeNotificationWitness ==
    /\ on_speaker_change_callback
    /\ Len(speaker_change_calls) >= 2
    /\ Len(speakers) >= 3
    /\ Len(transcript) > Len(speakers)

(* Durations of the word-level segments finalized for a raw id *)
RECURSIVE DurationsOf(_, _)
DurationsOf(segments, id) ==
    IF segments = <<>> THEN <<>>
    ELSE (IF Head(segments).speaker_id = id
          THEN <<Head(segments).end_time - Head(segments).start_time>>
          ELSE <<>>)
         \o DurationsOf(Tail(segments), id)

(* C7  Timing-profile running average: once k >= 1 word-level segments     *)
(* have been finalized for a raw id, its timing profile exists with        *)
(* segment_count = k and avg_duration the mean of the k durations, also    *)
(* when the id was first registered by a single-speaker fallback result.   *)
TimingRunningAverage ==
    \A id \in AllSpeakerIds :
        Len(DurationsOf(finalized, id)) >= 1
        => /\ id \in DOMAIN speaker_timings
           /\ speaker_timings[id].segment_count = Len(DurationsOf(finalized, id))
           /\ speaker_timings[id].avg_duration[1] * Len(DurationsOf(finalized, id))
                = SumSeq(DurationsOf(finalized, id)) * speaker_timings[id].avg_duration[2]

(* C8  Single-speaker fallback: a result with text and no word list        *)
(* appends exactly one entry, attributed to the last confirmed speaker     *)
(* (also when that is raw id 0) or to raw id 0 on a fresh session, and     *)
(* leaves last_speaker_id equal to that id.                                *)
SingleSpeakerFallback ==
    [][(Fallback(last_op') /\ results_handled' # results_handled)
        => /\ Len(transcript') = Len(transcript) + 1
           /\ SubSeq(transcript', 1, Len(transcript)) = transcript
           /\ transcript'[Len(transcript')].speaker_id
                = (IF last_speaker_id = NoneId THEN 0 ELSE last_speaker_id)
           /\ transcript'[Len(transcript')].text = <<"Okay">>
           /\ last_speaker_id' = transcript'[Len(transcript')].speaker_id]_vars

(* A fallback result was attributed to a last confirmed speaker other than 0 *)
SingleSpeakerFallbackWitness ==
    /\ Fallback(last_op)
    /\ Len(transcript) >= 2
    /\ transcript[Len(transcript)].speaker_id # 0
    /\ "confidence" \notin DOMAIN transcript[Len(transcript)]

(* C9  Empty batch: an empty word batch, or a result whose text is empty   *)
(* or blank, appends no entry, calls no callback and leaves the registry,  *)
(* transcript, history window, consistency scores, timing profiles and     *)
(* last_speaker_id unchanged; the empty batch returns no segment.          *)
EmptyBatch ==
    [][(EmptyInput(last_op') /\ results_handled' # results_handled)
        => /\ UNCHANGED <<speakers, transcript, last_speaker_id, speaker_history,
                          speaker_timings, speaker_consistency_scores>>
           /\ UNCHANGED <<transcript_calls, speaker_change_calls>>
           /\ (last_op'.name = "process_words_with_speakers"
                 => validated_segments' = <<>>)]_vars

(* An empty input arrived in a session that already holds entries,         *)
(* history and timing profiles                                             *)
EmptyBatchWitness ==
    /\ EmptyInput(last_op)
    /\ transcript # <<>>
    /\ speaker_history # <<>>
    /\ DOMAIN speaker_timings # {}

(* C10  Consistency neutrality: the score of a speaker id that was never   *)
(* recorded in the history window is 0.5, and while the window holds       *)
(* fewer than 3 entries the score of every speaker id is 0.5.              *)
ConsistencyNeutrality ==
    /\ \A s \in AllSpeakerIds \ recorded :
          get_speaker_consistency_score(speaker_consistency_scores, s) = NeutralScore
    /\ Len(speaker_history) < 3
          => \A s \in AllSpeakerIds :
                get_speaker_consistency_score(speaker_consistency_scores, s) = NeutralScore

(* A recorded speaker has a score other than 0.5 while another id was      *)
(* never recorded                                                          *)
ConsistencyNeutralityWitness ==
    /\ \E s \in recorded :
          get_speaker_consistency_score(speaker_consistency_scores, s) # NeutralScore
    /\ AllSpeakerIds \ recorded # {}

(* C11  clear_session resets to the Idle equivalent: it leaves the         *)
(* registry, transcript, history window, consistency scores and timing     *)
(* profiles empty and last_speaker_id absent, and from then on every       *)
(* result yields the transcript entries and the callback calls that the    *)
(* same results yield on a freshly constructed instance.                   *)
ClearSessionEquivalence ==
    [][/\ last_op'.name = "clear_session"
          => /\ speakers' = <<>> /\ transcript' = <<>>
             /\ speaker_history' = <<>>
             /\ DOMAIN speaker_consistency_scores' = {}
             /\ DOMAIN speaker_timings' = {}
             /\ last_speaker_id' = NoneId
       /\ transcript' = fresh_instance'.transcript
       /\ last_op'.name = "handle_transcript_result"
          => /\ AddedTo(transcript_calls, transcript_calls')
                  = AddedTo(fresh_instance.transcript_calls,
                            fresh_instance'.transcript_calls)
             /\ AddedTo(speaker_change_calls, speaker_change_calls')
                  = AddedTo(fresh_instance.speaker_change_calls,
                            fresh_instance'.speaker_change_calls)]_vars

(* A session with two speakers and timing profiles was cleared and then    *)
(* handled a fallback result and a word-level result, with notifications   *)
ClearSessionEquivalenceWitness ==
    /\ Len(transcript_calls) > Len(fresh_instance.transcript_calls)
    /\ Len(transcript) >= 2
    /\ Len(speakers) >= 2
    /\ "confidence" \notin DOMAIN transcript[1]
    /\ fresh_instance.speaker_change_calls # <<>>
(* C12  Stopped is terminal: once an instance has left Active, through     *)
(* stop_diarization or through the close handler, no later operation, a    *)
(* further start_diarization included, makes it Active again.              *)
StoppedIsTerminal == left_active => ~is_active
(* The text of a segment: its words separated by single spaces *)
SegmentText(segment) ==
    [i \in 1 .. (2 * Len(segment.words) - 1) |->
        IF i % 2 = 1 THEN segment.words[(i + 1) \div 2][1] ELSE Space]

(* C13  Append-only, ordered transcript: a processed batch appends exactly *)
(* one entry per segment the grouper returned, in segment order, after     *)
(* the entries of earlier results; no step other than clear_session        *)
(* changes, reorders or deletes an entry, so between two clear_session     *)
(* calls an earlier transcript is a prefix of every later one.             *)
TranscriptAppendOnly ==
    [][/\ last_op'.name # "clear_session"
          => /\ Len(transcript') >= Len(transcript)
             /\ SubSeq(transcript', 1, Len(transcript)) = transcript
       /\ (WordLevel(last_op') /\ results_handled' # results_handled)
          => /\ Len(transcript') = Len(transcript) + Len(validated_segments')
             /\ \A j \in 1 .. Len(validated_segments') :
                   /\ transcript'[Len(transcript) + j].speaker_id
                        = validated_segments'[j].speaker_id
                   /\ transcript'[Len(transcript) + j].text
                        = SegmentText(validated_segments'[j])
                   /\ transcript'[Len(transcript) + j].confidence
                        = validated_segments'[j].confidence]_vars

(* A batch of several segments was appended after the entries of earlier   *)
(* results                                                                 *)
TranscriptAppendOnlyWitness ==
    /\ WordLevel(last_op)
    /\ Len(validated_segments) >= 2
    /\ Len(transcript) > Len(validated_segments)
    /\ transcript[Len(transcript)].speaker_id
         = validated_segments[Len(validated_segments)].speaker_id
    /\ transcript[Len(transcript)].speaker_id # transcript[Len(transcript) - 1].speaker_id
(* A well-formed HH:MM:SS time text and the second of the day it names *)
IsClockText(time) ==
    /\ Len(time) = 3
    /\ time[1] \in 0 .. 23 /\ time[2] \in 0 .. 59 /\ time[3] \in 0 .. 59

SecondOfDay(time) == (3600 * time[1]) + (60 * time[2]) + time[3]

(* text is the way a difference of delta seconds between two times of the  *)
(* same day is written: H:MM:SS, preceded by "-1 day, " when negative      *)
WritesDifference(text, delta) ==
    \E days \in {0 - 1, 0} : \E h \in 0 .. 23 : \E m \in 0 .. 59 :
        LET sec == delta - (86400 * days) - (3600 * h) - (60 * m)
        IN  /\ sec \in 0 .. 59
            /\ text = (IF days = 0 THEN "" ELSE "-1 day, ")
                        \o ToString(h) \o ":"
                        \o (IF m < 10 THEN "0" ELSE "") \o ToString(m) \o ":"
                        \o (IF sec < 10 THEN "0" ELSE "") \o ToString(sec)

SummaryTaken == last_op.name = "get_session_summary"

(* C14 as stated: the session duration of a summary is the "unknown"       *)
(* sentinel whenever the transcript is empty or an entry time cannot be    *)
(* parsed, and otherwise the difference between the last and the first     *)
(* entry's timestamps.                                                     *)
SessionDurationSentinel ==
    SummaryTaken
    => IF \/ transcript = <<>>
          \/ \E i \in 1 .. Len(transcript) : ~IsClockText(transcript[i].time)
       THEN summary.session_duration = "Unknown"
       ELSE WritesDifference(summary.session_duration,
                             SecondOfDay(transcript[Len(transcript)].time)
                               - SecondOfDay(transcript[1].time))

(* C14 amended: the session duration of a summary is "00:00:00" when the   *)
(* transcript is empty, the "unknown" sentinel when the first or the last  *)
(* entry's time cannot be parsed, and otherwise the difference between     *)
(* the last and the first entry's timestamps.                              *)
SessionDuration ==
    SummaryTaken
    => IF transcript = <<>>
       THEN summary.session_duration = "00:00:00"
       ELSE IF \/ ~IsClockText(transcript[1].time)
               \/ ~IsClockText(transcript[Len(transcript)].time)
       THEN summary.session_duration = "Unknown"
       ELSE WritesDifference(summary.session_duration,
                             SecondOfDay(transcript[Len(transcript)].time)
                               - SecondOfDay(transcript[1].time))

(* A summary was taken of a transcript whose last entry was made at a      *)
(* later second than its first                                             *)
SessionDurationWitness ==
    /\ SummaryTaken
    /\ Len(transcript) >= 2
    /\ transcript[Len(transcript)].time # transcript[1].time
    /\ summary.session_duration # "0:00:00"
(* Sum of the values f takes on its domain *)
RECURSIVE SumOver(_)
SumOver(f) ==
    IF DOMAIN f = {} THEN 0
    ELSE LET x == CHOOSE x \in DOMAIN f : TRUE
         IN  f[x] + SumOver([y \in (DOMAIN f) \ {x} |-> f[y]])

(* C15  Summary consistency: in every summary, total_utterances is the     *)
(* length of the transcript and the sum of the per-speaker utterance       *)
(* counts, speakers_detected is the number of registry entries, and the    *)
(* speaker names that have statistics are the registered display names.    *)
SummaryConsistency ==
    SummaryTaken
    => /\ summary.total_utterances = Len(transcript)
       /\ summary.total_utterances
            = SumOver([n \in DOMAIN summary.speaker_stats |->
                         summary.speaker_stats[n].utterances])
       /\ summary.speakers_detected = Len(speakers)
       /\ DOMAIN summary.speaker_stats = {speakers[i].name : i \in 1 .. Len(speakers)}

(* A summary was taken of a session of two speakers, one of whom has       *)
(* several entries                                                         *)
SummaryConsistencyWitness ==
    /\ SummaryTaken
    /\ summary.speakers_detected >= 2
    /\ summary.total_utterances > summary.speakers_detected
    /\ \E n \in DOMAIN summary.speaker_stats : summary.speaker_stats[n].words >= 2
(* Positions of the messages the server sent, and of those it read *)
SentAt(log) == {i \in 1 .. Len(log) : log[i].dir = "sent"}
ReadAt(log) == {i \in 1 .. Len(log) : log[i].dir = "read"}

(* C16  WebSocket control protocol: when the upstream connection starts,   *)
(* the first message the server sends is "ready"; no "ready" is sent when  *)
(* the start fails; and every "get_summary" the server reads is answered   *)
(* with exactly one "summary", sent before the server reads again.         *)
ControlProtocol ==
    /\ start_success = "True"
          => \A i \in SentAt(ws_log) :
                (\A j \in SentAt(ws_log) : i <= j) => ws_log[i].type = "ready"
    /\ start_success = "False" => CountIn(ws_log, Sent("ready")) = 0
    /\ \A i \in ReadAt(ws_log) :
          ws_log[i].type = "get_summary"
          => LET later == {j \in ReadAt(ws_log) : j > i}
                 answers == {k \in SentAt(ws_log) :
                               /\ k > i
                               /\ \A j \in later : k < j
                               /\ ws_log[k].type = "summary"}
             IN  /\ Cardinality(answers) <= 1
                 /\ (later # {} \/ ws_pc # "handle") => Cardinality(answers) = 1

----------------------------------------------------------------------------
(* Vocabulary of the properties about the validation of one batch *)

(* The step handled a result that carried text and words *)
BatchValidated ==
    /\ results_handled' # results_handled
    /\ WordLevel(last_op')

(* The raw speaker label of a word of a result (0 when the engine gave none) *)
RawLabel(word) == IF word.speaker = NoneId THEN 0 ELSE word.speaker

(* Giving the label sid to word k makes a run of fewer than 2 words that   *)
(* carry the raw label sid around position k                               *)
ShortRunAround(words, k, sid) ==
    /\ k > 1 => RawLabel(words[k - 1]) # sid
    /\ k < Len(words) => RawLabel(words[k + 1]) # sid

(* The rapid-switch guard applies to word k whose proposed speaker is sid *)
RapidSwitchApplies(words, k, sid) ==
    /\ k > 1
    /\ words[k].start - words[k - 1].end < max_rapid_switch_time
    /\ words[k].end - words[k].start < min_segment_duration
    /\ ShortRunAround(words, k, sid)

(* C17  Rapid-switch override target: a word to which the rapid-switch     *)
(* guard applies is given the speaker that was last confirmed before the   *)
(* batch, whatever its id (0 included); it keeps the proposed speaker only *)
(* when no speaker had been confirmed.                                     *)
RapidSwitchTarget ==
    [][BatchValidated
       => \A k \in 1 .. Len(word_trace') :
             RapidSwitchApplies(last_op'.result.words, k, word_trace'[k].proposed_speaker)
             => word_trace'[k].validated_speaker
                  = IF last_speaker_id # NoneId
                    THEN last_speaker_id
                    ELSE word_trace'[k].proposed_speaker]_vars

(* Positions of the neighbours of word k: within 2 positions, k excluded *)
Neighbours(words, k) == (Max(1, k - 2) .. Min(Len(words), k + 2)) \ {k}

LabelCount(words, at, sid) == Cardinality({i \in at : RawLabel(words[i]) = sid})

LabelsAt(words, at) == {RawLabel(words[i]) : i \in at}

(* The raw labels that no other label outnumbers among the neighbours *)
TopLabels(words, at) ==
    {sid \in LabelsAt(words, at) :
        \A other \in LabelsAt(words, at) :
           LabelCount(words, at, other) <= LabelCount(words, at, sid)}

(* Word k is shorter than 10% of the average segment duration recorded in  *)
(* timings for the speaker sid                                             *)
TimingPriorApplies(words, k, sid, timings) ==
    /\ sid \in DOMAIN timings
    /\ 10 * (words[k].end - words[k].start) * timings[sid].avg_duration[2]
          < timings[sid].avg_duration[1]

(* C18  Timing-prior guard resolution: a word on which the rapid-switch    *)
(* guard did not override, whose proposed speaker has a timing profile and *)
(* whose duration is below 10% of that profile's avg_duration, is given    *)
(* the raw label that holds a strict majority among its neighbours; when   *)
(* the top count is tied or there is no neighbour it is given the speaker  *)
(* last confirmed before the batch, or 0 if there is none.                 *)
TimingPriorResolution ==
    [][BatchValidated
       => \A k \in 1 .. Len(word_trace') :
             LET words == last_op'.result.words
                 at == Neighbours(words, k)
                 top == TopLabels(words, at)
             IN  (/\ ~RapidSwitchApplies(words, k, word_trace'[k].proposed_speaker)
                  /\ TimingPriorApplies(words, k, word_trace'[k].proposed_speaker,
                                        speaker_timings))
                 => /\ \A sid \in top :
                          2 * LabelCount(words, at, sid) > Cardinality(at)
                          => word_trace'[k].validated_speaker = sid
                    /\ Cardinality(top) # 1
                          => word_trace'[k].validated_speaker
                               = IF last_speaker_id # NoneId THEN last_speaker_id ELSE 0]_vars

(* Positions of the context window of word k: [k-3, k+3] clamped to the batch *)
Window(words, k) == Max(1, k - 3) .. Min(Len(words), k + 3)

(* Confidence of a word of a result in tenths (0 when the engine gave no label) *)
RawConfidence(word) == IF word.speaker = NoneId THEN 0 ELSE word.confidence

ConfidenceSum(words, at, sid) ==
    SumOver([i \in {j \in at : RawLabel(words[j]) = sid} |-> RawConfidence(words[i])])

(* Consistency score of sid in scores, in units of 1/HScale; 0.5 when none *)
ConsistencyOf(scores, sid) ==
    IF sid \in DOMAIN scores THEN scores[sid] ELSE HScale \div 2

WindowLcm == 4 * 105   \* every occurrence count of a window of up to 7 words divides it

(* 0.4*(occurrences/window size) + 0.3*(mean confidence) + 0.3*consistency *)
(* of the label sid, multiplied by 100 * size * WindowLcm * HScale         *)
VoteScore(words, at, scores, sid) ==
    LET c == LabelCount(words, at, sid)
        size == Cardinality(at)
    IN  (40 * c * WindowLcm * HScale)
        + (3 * ConfidenceSum(words, at, sid) * size * (WindowLcm \div c) * HScale)
        + (30 * ConsistencyOf(scores, sid) * size * WindowLcm)

(* Position of the first word of the window that carries the label sid *)
FirstAt(words, at, sid) ==
    CHOOSE i \in at : /\ RawLabel(words[i]) = sid
                      /\ \A j \in at : RawLabel(words[j]) = sid => i <= j

(* C19  Vote scorer selection: for every word of a batch the proposed      *)
(* speaker is a raw label of its context window that maximises             *)
(* 0.4*(occurrences/window size) + 0.3*(mean confidence of its             *)
(* occurrences) + 0.3*(its consistency score); among several labels at the *)
(* maximum, the one that occurs first in the window is proposed.           *)
VoteSelection ==
    WordLevel(last_op)
    => \A k \in 1 .. Len(word_trace) :
          LET words == last_op.result.words
              at == Window(words, k)
              sc == word_trace[k].scores
              p == word_trace[k].proposed_speaker
          IN  /\ p \in LabelsAt(words, at)
              /\ \A sid \in LabelsAt(words, at) :
                    /\ VoteScore(words, at, sc, sid) <= VoteScore(words, at, sc, p)
                    /\ (sid # p /\ VoteScore(words, at, sc, sid) = VoteScore(words, at, sc, p))
                          => FirstAt(words, at, p) < FirstAt(words, at, sid)

(* A batch was validated in which, for some word, label 1 and label 0      *)
(* reached the same maximum and label 1, occurring first, was proposed for *)
(* a word labelled 0; and for some word the proposed label is outnumbered  *)
(* in its window and wins on confidence or consistency                     *)
VoteSelectionWitness ==
    /\ WordLevel(last_op)
    /\ \E k \in 1 .. Len(word_trace) :
          LET words == last_op.result.words
              at == Window(words, k)
              sc == word_trace[k].scores
          IN  /\ word_trace[k].proposed_speaker = 1
              /\ RawLabel(words[k]) = 0
              /\ VoteScore(words, at, sc, 0) = VoteScore(words, at, sc, 1)
    /\ \E k \in 1 .. Len(word_trace) :
          LET words == last_op.result.words
              at == Window(words, k)
          IN  \E sid \in LabelsAt(words, at) :
                 LabelCount(words, at, sid)
                    > LabelCount(words, at, word_trace[k].proposed_speaker)

(* C20  Batch-level anchor: every word of a batch is validated against the *)
(* last_speaker_id left by the previous result, and after a batch that     *)
(* produced at least one segment last_speaker_id is the speaker id of the  *)
(* last segment of that batch.                                             *)
BatchLevelAnchor ==
    [][BatchValidated
       => /\ \A k \in 1 .. Len(word_trace') :
                word_trace'[k].last_speaker_id = last_speaker_id
          /\ validated_segments' # <<>>
                => last_speaker_id'
                     = validated_segments'[Len(validated_segments')].speaker_id]_vars

(* A batch of several segments was validated whose first word was given a  *)
(* speaker other than the anchor, the later words still being validated    *)
(* against that anchor, and the batch moved the anchor                     *)
BatchLevelAnchorWitness ==
    /\ WordLevel(last_op)
    /\ results_handled = 2
    /\ Len(word_trace) >= 3
    /\ Len(validated_segments) >= 2
    /\ word_trace[1].last_speaker_id # NoneId
    /\ word_trace[1].validated_speaker # word_trace[1].last_speaker_id
    /\ word_trace[Len(word_trace)].last_speaker_id = word_trace[1].last_speaker_id
    /\ last_speaker_id # word_trace[1].last_speaker_id

----------------------------------------------------------------------------
(* Vocabulary of the properties about the history window *)

(* Interior positions of the window h that hold sid and agree with at      *)
(* least one of their two neighbours                                       *)
StableInteriorOf(h, sid) ==
    {i \in 2 .. (Len(h) - 1) : h[i] = sid /\ (h[i] = h[i - 1] \/ h[i] = h[i + 1])}

(* C21  Consistency score definition: for a recorded speaker id s, once    *)
(* the history window has interior positions, the score returned for s is  *)
(* the fraction of the interior positions of the current window that hold  *)
(* s and agree with at least one of their two neighbours.                  *)
ConsistencyScoreDefinition ==
    \A sid \in recorded :
       Len(speaker_history) >= 3
       => ConsistencyOf(speaker_consistency_scores, sid) * (Len(speaker_history) - 2)
            = HScale * Cardinality(StableInteriorOf(speaker_history, sid))

(* The last n entries of the sequence s, or all of s when it is shorter *)
LastOf(s, n) == SubSeq(s, Max(1, Len(s) - n + 1), Len(s))

(* C22  Bounded FIFO history: the history window never holds more than 10  *)
(* entries and is always the last min(n, 10) of the n speaker ids recorded *)
(* since construction or the last clear_session, in recording order.       *)
BoundedFifoHistory ==
    /\ Len(speaker_history) <= 10
    /\ speaker_history = LastOf(recording_log, 10)

(* More than 10 ids were recorded, and the window differs from the first  *)
(* 10 of them                                                              *)
BoundedFifoHistoryWitness ==
    /\ Len(recording_log) > 10
    /\ Len(speaker_history) = 10
    /\ speaker_history # SubSeq(recording_log, 1, 10)

----------------------------------------------------------------------------
(* Vocabulary of the properties about the times of the words *)

WellFormed(word) == word.start <= word.end

RECURSIVE WellFormedTexts(_)
WellFormedTexts(words) ==
    IF words = <<>> THEN <<>>
    ELSE (IF WellFormed(Head(words)) THEN <<Head(words).word>> ELSE <<>>)
         \o WellFormedTexts(Tail(words))

(* C23  Malformed words are dropped: the segments of a batch hold the      *)
(* texts of its well-formed words, in order, and no text of a word whose   *)
(* end time is before its start time.                                      *)
MalformedWordsDropped ==
    WordLevel(last_op)
    => SegmentWords(validated_segments) = WellFormedTexts(last_op.result.words)

AllWellFormed(words) == \A i \in 1 .. Len(words) : WellFormed(words[i])

(* C24  Segment well-formedness: for a batch of words that each have       *)
(* start <= end, in whatever order their times are, every segment holds at *)
(* least one word and has start_time <= end_time.                          *)
SegmentWellFormedness ==
    (WordLevel(last_op) /\ AllWellFormed(last_op.result.words))
    => \A i \in 1 .. Len(validated_segments) :
          /\ validated_segments[i].words # <<>>
          /\ validated_segments[i].start_time <= validated_segments[i].end_time

(* Positions of the words of segment i, the segments taking the words of   *)
(* the batch in order                                                      *)
MembersOf(segments, i) ==
    LET before == SumSeq([j \in 1 .. (i - 1) |-> Len(segments[j].words)])
    IN  (before + 1) .. (before + Len(segments[i].words))

(* C25  Grouper produces maximal runs: adjacent segments have different    *)
(* speaker ids, every word of a segment was given the segment's speaker    *)
(* id, the segment's start_time is the least start and its end_time the    *)
(* greatest end of its words, and its confidence is the greatest           *)
(* validation_confidence of its words.                                     *)
GrouperMaximalRuns ==
    WordLevel(last_op)
    => LET words == last_op.result.words
           segments == validated_segments
       IN  /\ \A i \in 2 .. Len(segments) :
                 segments[i].speaker_id # segments[i - 1].speaker_id
           /\ \A i \in 1 .. Len(segments) :
                 LET members == MembersOf(segments, i)
                 IN  /\ members # {}
                     /\ \A k \in members :
                           /\ word_trace[k].validated_speaker = segments[i].speaker_id
                           /\ segments[i].start_time <= words[k].start
                           /\ segments[i].end_time >= words[k].end
                           /\ segments[i].confidence >= word_trace[k].validation_confidence
                     /\ \E k \in members : segments[i].start_time = words[k].start
                     /\ \E k \in members : segments[i].end_time = words[k].end
                     /\ \E k \in members :
                           segments[i].confidence = word_trace[k].validation_confidence

(* No word of the batch carries timing: start_time = end_time = 0.0 *)
WithoutTiming(words) ==
    \A i \in 1 .. Len(words) : words[i].start = 0 /\ words[i].end = 0

(* C26  Permissive behaviour without timing: in a batch none of whose      *)
(* words carries timing, every word is given the speaker the vote          *)
(* proposed, whatever the last confirmed speaker and the timing profiles.  *)
PermissiveWithoutTiming ==
    (WordLevel(last_op) /\ WithoutTiming(last_op.result.words))
    => \A k \in 1 .. Len(word_trace) :
          word_trace[k].validated_speaker = word_trace[k].proposed_speaker

----------------------------------------------------------------------------
(* Vocabulary of the properties about the order of processing *)

(* Read-only scoring of word k against the session as it is before the     *)
(* batch: the vote and the temporal validation of the word                 *)
ScoredReadOnly(word_data, k, scores, last, timings) ==
    LET best == ProposedSpeaker(word_data, k, scores)
    IN  [validated_speaker |->
             apply_temporal_validation(best.speaker, word_data[k], k, word_data,
                                       last, timings),
         validation_confidence |-> best.score]

(* The history and scores after the speakers of ids have been recorded, in order *)
RECURSIVE RecordedInOrder(_, _, _)
RecordedInOrder(ids, hist, scores) ==
    IF ids = <<>> THEN [speaker_history |-> hist, scores |-> scores]
    ELSE LET upd == update_speaker_history(hist, scores, Head(ids))
         IN  RecordedInOrder(Tail(ids), upd.speaker_history, upd.scores)

(* C27  Parallel-scoring equivalence: scoring every word of a batch        *)
(* read-only against the session state before the batch and then recording *)
(* the validated speakers in order gives the assigned speakers, the        *)
(* validation confidences and the final history and consistency scores     *)
(* that the word-by-word processing gives.                                 *)
ParallelScoringEquivalence ==
    [][BatchValidated
       => LET word_data == WordData(last_op'.result.words)
              scored == [k \in 1 .. Len(word_data) |->
                           ScoredReadOnly(word_data, k, speaker_consistency_scores,
                                          last_speaker_id, speaker_timings)]
              committed == RecordedInOrder(
                               [k \in 1 .. Len(word_data) |-> scored[k].validated_speaker],
                               speaker_history, speaker_consistency_scores)
          IN  /\ \A k \in 1 .. Len(word_data) :
                    /\ word_trace'[k].validated_speaker = scored[k].validated_speaker
                    /\ word_trace'[k].validation_confidence
                          = scored[k].validation_confidence
              /\ speaker_history' = committed.speaker_history
              /\ speaker_consistency_scores' = committed.scores]_vars

----------------------------------------------------------------------------
(* Vocabulary of the properties about clear_session racing a result *)

(* The fields of an instance that make up the session state *)
SessionOf(inst) ==
    <<inst.speakers, inst.transcript, inst.last_speaker_id, inst.speaker_history,
      inst.speaker_timings, inst.speaker_consistency_scores>>

(* C28  No partial batch leaks across a reset: once a result handler and a *)
(* clear_session that ran at the same time have both finished, the session *)
(* state is the cleared state or the state that handling the whole result  *)
(* on the cleared state gives.                                             *)
NoPartialBatchLeak ==
    (handler_pc = "done" /\ clear_pc = "done")
    => \/ session = SessionOf(FreshInstance)
       \/ session = SessionOf(ResultHandledBy(FreshInstance, last_op.result,
                                              on_transcript_callback,
                                              on_speaker_change_callback))

----------------------------------------------------------------------------
(* Vocabulary of the properties about results and the lifecycle *)

(* The step is a call of the result handler *)
ResultDelivered ==
    /\ results_handled' # results_handled
    /\ last_op'.name = "handle_transcript_result"

(* C29  Words are received only while Active: a result delivered to the    *)
(* result handler after the session has left Active appends no transcript  *)
(* entry, makes no callback call and changes no registry, history or       *)
(* timing state.                                                           *)
ReceivedOnlyWhileActive ==
    [][(ResultDelivered /\ left_active /\ ~is_active)
       => UNCHANGED <<session, calls>>]_vars

(* C30  Fatal errors stop the session: a structural failure while a result *)
(* is handled propagates to the caller and takes the session out of        *)
(* Active; a result with per-word anomalies leaves is_active as it was.    *)
FatalErrorsStopSession ==
    [][ResultDelivered
       => IF "raised" \in DOMAIN last_op'
          THEN last_op'.propagated /\ ~is_active'
          ELSE is_active' = is_active]_vars

----------------------------------------------------------------------------
(* Vocabulary of the properties about what an operation leaves alone *)

(* The history window, the consistency scores and the timing profiles *)
tracking == <<speaker_history, speaker_consistency_scores, speaker_timings>>

(* C31  History and timing are touched only by validation: the             *)
(* single-speaker fallback, get_session_summary, get_transcript_data,      *)
(* send_audio and stop_diarization leave the history window, the           *)
(* consistency scores and the timing profiles unchanged; a step that       *)
(* changes any of them handles a word-level result (or is clear_session).  *)
TrackingTouchedOnlyByValidation ==
    [][(tracking' # tracking)
       => (WordLevel(last_op') \/ last_op'.name = "clear_session")]_vars

(* The fallback has run on a session that holds a history window and       *)
(* timing profiles, with audio forwarded and the session then stopped      *)
TrackingTouchedOnlyByValidationWitness ==
    /\ \E i \in 1 .. Len(transcript) : "confidence" \notin DOMAIN transcript[i]
    /\ speaker_history # <<>>
    /\ speaker_timings # EmptyMap
    /\ audio_sent > 0
    /\ ws_pc = "done"
    /\ \E i \in 1 .. Len(ws_log) : ws_log[i] = Sent("summary")

----------------------------------------------------------------------------
(* Vocabulary of the properties about the transcript *)

TranscriptEntryFields == {"time", "speaker", "speaker_id", "text", "confidence", "is_final"}

(* C32  Every transcript entry is complete: every entry of the transcript, *)
(* appended by word-level processing or by the single-speaker fallback,    *)
(* carries time, speaker name, raw speaker id, text, confidence and        *)
(* is_final = true.                                                        *)
TranscriptEntriesComplete ==
    \A i \in 1 .. Len(transcript) :
       /\ DOMAIN transcript[i] = TranscriptEntryFields
       /\ transcript[i].is_final

----------------------------------------------------------------------------
(* C33  Validation confidence is the proposed speaker's score: for every   *)
(* validated word, validation_confidence is the combined score             *)
(* 0.4*(occurrences/window size) + 0.3*(mean confidence) + 0.3*consistency *)
(* of the speaker the vote proposed, also when the temporal validation     *)
(* gave the word to another speaker, and it lies in (0, 1].                *)
ValidationConfidenceIsProposedScore ==
    WordLevel(last_op)
    => \A k \in 1 .. Len(word_trace) :
          LET words == last_op.result.words
              at == Window(words, k)
              confidence == word_trace[k].validation_confidence
          IN  /\ confidence * Cardinality(at) * HScale * ((100 * WindowLcm) \div ScoreScale)
                    = VoteScore(words, at, word_trace[k].scores,
                                word_trace[k].proposed_speaker)
              /\ 0 < confidence
              /\ confidence <= ScoreScale

(* A batch was validated in which the temporal validation gave a word to a *)
(* speaker other than the proposed one, whose own score in the window of   *)
(* the word differs from the proposed speaker's                            *)
ValidationConfidenceIsProposedScoreWitness ==
    /\ WordLevel(last_op)
    /\ \E k \in 1 .. Len(word_trace) :
          LET words == last_op.result.words
              at == Window(words, k)
              assigned == word_trace[k].validated_speaker
          IN  /\ assigned # word_trace[k].proposed_speaker
              /\ assigned \in LabelsAt(words, at)
              /\ VoteScore(words, at, word_trace[k].scores, assigned)
                    < VoteScore(words, at, word_trace[k].scores,
                                word_trace[k].proposed_speaker)

----------------------------------------------------------------------------
----------------------------------------------------------------------------
(* Vocabulary of the properties about stopping *)

(* The step is a call of stop_diarization, by the finally block of the     *)
(* endpoint or by another caller                                           *)
StopCalled ==
    \/ last_op' = [name |-> "stop_diarization"]
    \/ last_op' = [name |-> "transcribe_websocket", at |-> "finally"]

----------------------------------------------------------------------------
(* Vocabulary of the properties about audio *)

(* The step is a call of send_audio *)
AudioSent == last_op'.name = "send_audio"

(* The step is a call of stop_diarization or the connection's close handler *)
StoppedOrClosed == last_op' # last_op /\ last_op'.name \in {"stop_diarization", "on_close"}

(* No connection has been opened yet: on_open sets diarization_enabled,     *)
(* which stays set while the session is not cleared                        *)
NeverStarted == ~diarization_enabled

----------------------------------------------------------------------------
(* Vocabulary of the properties about the stored consistency scores *)

(* Interior positions of the window h that agree with a neighbour *)
StableInterior(h) ==
    {i \in 2 .. (Len(h) - 1) : h[i] = h[i - 1] \/ h[i] = h[i + 1]}

(* The history window after the first n recordings of log *)
WindowAfter(log, n) == LastOf(SubSeq(log, 1, n), history_size)

(* C37  Consistency scores are cached per recording: recording speaker s   *)
(* into a window that then holds at least 3 entries sets the stored score  *)
(* of s to the fraction of the interior positions of the window that match *)
(* a neighbour, and changes no other stored score; recording into a window *)
(* that then holds fewer than 3 entries changes no score.                  *)
ScoresCachedPerRecording ==
    [][BatchValidated
       => \A k \in 1 .. Len(word_trace') :
             LET before == word_trace'[k].scores
                 after == IF k < Len(word_trace') THEN word_trace'[k + 1].scores
                          ELSE speaker_consistency_scores'
                 s == word_trace'[k].validated_speaker
                 window == WindowAfter(recording_log', Len(recording_log) + k)
             IN  IF Len(window) < 3
                 THEN after = before
                 ELSE /\ DOMAIN after = (DOMAIN before) \cup {s}
                      /\ \A other \in (DOMAIN before) \ {s} : after[other] = before[other]
                      /\ after[s] * (Len(window) - 2)
                            = HScale * Cardinality(StableInterior(window))]_vars

(* The window is full, and a speaker who was not recorded last keeps a     *)
(* stored score that is not the fraction the window gives now              *)
ScoresCachedPerRecordingWitness ==
    /\ Len(speaker_history) = history_size
    /\ Len(recording_log) > history_size
    /\ \E other \in DOMAIN speaker_consistency_scores :
          /\ other # speaker_history[Len(speaker_history)]
          /\ speaker_consistency_scores[other] * (Len(speaker_history) - 2)
                # HScale * Cardinality(StableInterior(speaker_history))

====
